---- MODULE Spec2Model ----
(***************************************************************************)
(* PaperLens server: the /analyze handler (routes/analyze.js) and the      *)
(* executor it drives (agent/executor.js).  One analysis run is modelled   *)
(* as the handler position, the SSE event stream, the executor's quota     *)
(* counter, the concurrency limiter and one task per plan item.  Every     *)
(* await of the code is a point where another task may run; everything     *)
(* between two awaits (including the promise continuations that run as     *)
(* microtasks: the limiter's finally block, the .catch handlers and the    *)
(* Promise.all joins) happens inside one action.                           *)
(***************************************************************************)
EXTENDS Integers, Sequences, FiniteSets, TLC

\* ---------------------------------------------------------------- bounds
NSec == 3                 \* plan items (sections) of a run
MaxSegments == 3          \* most segments the Segmenter returns in the model
FaultBudget == 4          \* abnormal answers of the environment per run: a
                          \* 429 answer costs 1, any other failing or
                          \* rejecting answer costs 2
MaxRateLimitedSections == 1  \* most sections whose requests get a 429 answer

\* ------------------------------------------------------ program constants
MAX_TOTAL_VISUALS == 2
maxConcurrent == 2
maxRetries == 3
maxSegmentsPerSection == 2
RetryDelayUnit == 5

Sec == 1..NSec
\* Retry-After values of a 429 answer; 0 stands for a value that is falsy in
\* `error.retryAfter || retryDelay` (0 or NaN from parseInt)
RetryAfterVals == {0, 5}

Min(a, b) == IF a < b THEN a ELSE b

\* ------------------------------------------------------------- variables
VARIABLES
  hpc,                    \* position of the /analyze handler
  stream,                 \* events written to the response, in order
  plan,                   \* plan items: priority and skip flag per section
  phase,                  \* position of execute: none, p1, p2, returned
  totalVisualsGenerated,  \* the run-wide quota counter
  running,                \* limiter.running
  queue,                  \* limiter.queue (section ids, FIFO)
  task,                   \* per plan item: position and locals of its task
  hist,                   \* history per section (not program state): the
                          \* Retry-After of its first 429 answer, the time
                          \* waited before its second attempt, whether its
                          \* promise rejected, whether its retries ran out,
                          \* whether its text was too short for a fallback
  genOk,                  \* history: <<section, attempt, segment>> generated
  faults,                 \* history: failing or rejecting answers so far
  rlCount,                \* history: 429 answers so far
  authFailed,             \* history: a generation call threw AuthError
  ppc,                    \* position of pollUntilComplete ("off": not called)
  pnow,                   \* Date.now() - startTime, in ms
  currentInterval,        \* its currentInterval, in ms
  pollAttempt,            \* its pollAttempt
  pollErr,                \* history: getVisualStatus threw during this poll
  status,                 \* the status the last getVisualStatus call gave
  gpc,                    \* position of one generation call ("off": none)
  gtext,                  \* the text it was called with
  gurl,                   \* the file url its poll returned
  dcache,                 \* downloader cache: entries in insertion order
  clock,                  \* Date.now(), in ms
  submits,                \* history: createVisualRequest calls per text
  submittedAt,            \* history: time of the last such call per text
  served,                 \* the svg the last generation call returned
  spc,                    \* position of one segmentContent call
  segIn,                  \* its text and the judgment it receives
  segOut,                 \* the segments it returned
  epc,                    \* position of one evaluateContent call
  evalIn,                 \* its text and the judgment it receives
  evalOut,                \* the verdict it returned
  plpc,                   \* position of one createPlan call and its caller
  planIn,                 \* the paper and the judgment createPlan receives
  planResult,             \* what createPlan returned
  planEvents,             \* the events the handler sent after createPlan
  runStart,               \* time the run had taken when the poll began, ms
  aborted,                \* the caller's overall timeout has fired
  cpc,                    \* position of one createVisualRequest call
  creq,                   \* its text and options, and whether a token is configured
  cbody,                  \* the content of the request it sent
  cresult,                \* how the call ended
  tcache,                 \* the Map of the text-keyed Cache, in insertion order
  bcache,                 \* the Map of the background worker, in insertion order
  ucache,                 \* the Map of the downloader, in insertion order
  pending,                \* handleGenerate calls waiting for the server, per text
  cnow,                   \* Date.now() of the cache operations
  cops,                   \* cache operations made so far
  cgot,                   \* the text and the answer of the last cache hit
  limQueue,               \* this.queue of a ConcurrencyLimiter: items {fn, resolve, reject}
  limRunning,             \* this.running
  fnState,                \* per task function: not passed yet, waiting, started or ended
  promise                 \* per execute call: how the promise it returned settled

vars == <<hpc, stream, plan, phase, totalVisualsGenerated, running, queue,
          task, hist, genOk, faults, rlCount, authFailed,
          ppc, pnow, currentInterval, pollAttempt, pollErr, status,
          gpc, gtext, gurl, dcache, clock, submits, submittedAt, served,
          spc, segIn, segOut, epc, evalIn, evalOut,
          plpc, planIn, planResult, planEvents, runStart, aborted,
          cpc, creq, cbody, cresult,
          tcache, bcache, ucache, pending, cnow, cops, cgot,
          limQueue, limRunning, fnState, promise>>

pollVars == <<ppc, pnow, currentInterval, pollAttempt, pollErr, status>>

mainVars == <<hpc, stream, plan, phase, totalVisualsGenerated, running, queue,
              task, hist, genOk, faults, rlCount, authFailed>>

genVars == <<gpc, gtext, gurl, dcache, clock, submits, submittedAt, served>>

\* the variables of the components that have a specification of their own
segVars == <<spc, segIn, segOut>>

evalVars == <<epc, evalIn, evalOut>>

planVars == <<plpc, planIn, planResult, planEvents>>

callerVars == <<runStart, aborted>>

clientVars == <<cpc, creq, cbody, cresult>>

cacheVars == <<tcache, bcache, ucache, pending, cnow, cops, cgot>>

limiterVars == <<limQueue, limRunning, fnState, promise>>

compVars == <<genVars, segVars, evalVars, planVars, callerVars, clientVars, cacheVars,
              limiterVars>>

\* what the actions of one component leave alone
NotGen == <<mainVars, pollVars, segVars, evalVars, planVars, callerVars,
  clientVars,
  cacheVars,
  limiterVars>>
NotSeg == <<mainVars, pollVars, genVars, evalVars, planVars, callerVars,
  clientVars,
  cacheVars,
  limiterVars>>
NotEval == <<mainVars, pollVars, genVars, segVars, planVars, callerVars,
  clientVars,
  cacheVars,
  limiterVars>>
NotPlan == <<mainVars, pollVars, genVars, segVars, evalVars, callerVars,
  clientVars,
  cacheVars,
  limiterVars>>
NotCaller == <<mainVars, pollVars, genVars, segVars, evalVars, planVars,
  clientVars,
  cacheVars,
  limiterVars>>
NotClient == <<mainVars, pollVars, genVars, segVars, evalVars, planVars, callerVars,
  cacheVars,
  limiterVars>>
NotCache == <<mainVars, pollVars, genVars, segVars, evalVars, planVars, callerVars, clientVars,
  limiterVars>>
NotLimiter == <<mainVars, pollVars, genVars, segVars, evalVars, planVars, callerVars, clientVars, cacheVars>>

\* their values while the component is not under study
GenIdle ==
  /\ gpc = "off"
  /\ gtext = "none"
  /\ gurl = "none"
  /\ dcache = <<>>
  /\ clock = 0
  /\ submits = <<>>
  /\ submittedAt = <<>>
  /\ served = <<>>

SegIdle ==
  /\ spc = "off"
  /\ segIn = <<>>
  /\ segOut = <<>>

EvalIdle ==
  /\ epc = "off"
  /\ evalIn = <<>>
  /\ evalOut = <<>>

PlanIdle ==
  /\ plpc = "off"
  /\ planIn = <<>>
  /\ planResult = <<>>
  /\ planEvents = <<>>

CallerIdle ==
  /\ runStart = 0
  /\ aborted = FALSE

ClientIdle ==
  /\ cpc = "off"
  /\ creq = <<>>
  /\ cbody = <<>>
  /\ cresult = "none"

CacheIdle ==
  /\ tcache = <<>>
  /\ bcache = <<>>
  /\ ucache = <<>>
  /\ pending = <<>>
  /\ cnow = 0
  /\ cops = 0
  /\ cgot = <<>>

LimiterIdle ==
  /\ limQueue = <<>>
  /\ limRunning = 0
  /\ fnState = <<>>
  /\ promise = <<>>

CompIdle ==
  /\ GenIdle /\ SegIdle /\ EvalIdle /\ PlanIdle /\ CallerIdle
  /\ ClientIdle
  /\ CacheIdle
  /\ LimiterIdle

\* ---------------------------------------------------------------- events
Ev(t, s, g, r) == [type |-> t, sec |-> s, seg |-> g, reason |-> r]

\* the onDiagram callback of the handler: (sectionId, svg, heading, error)
OnDiagram(s, g, svg, error) ==
  IF error # "none" THEN <<Ev("section_error", s, g, error)>>
  ELSE IF svg = "svg" THEN <<Ev("diagram", s, g, "none")>>
  ELSE <<>>

\* ----------------------------------------------------------------- tasks
IdleTask ==
  [pc |-> "idle", retryCount |-> 0, nsegs |-> 0, idx |-> 0,
   visualsGenerated |-> 0, segmentsRejected |-> 0, segmentsSkipped |-> 0,
   fallback |-> FALSE, waitTime |-> 0]

SettledTask == [IdleTask EXCEPT !.pc = "settled"]
QueuedTask == [IdleTask EXCEPT !.pc = "queued"]

IdleHist ==
  [delay |-> 0, firstRA |-> -1, threw |-> FALSE, exhausted |-> FALSE,
   short |-> FALSE]

\* positions of a task that holds a limiter slot: awaiting the section's
\* preparation (processSection, evaluateContent, segmentContent), a segment's
\* evaluation, a generation (createVisualRequest, pollUntilComplete,
\* downloadAndServeSVG) or the retry timer
ActivePcs == {"prepare", "evaluateSegment", "generate", "retryWait"}

\* a step result: the task's new record, the events it emitted, whether the
\* task's promise rejected (threw) and whether the rejection escaped the
\* .catch handler into Promise.all (rej), whether the fallback was left out
\* because the section's text is too short (short)
Res(t, evs) ==
  [t |-> t, evs |-> evs, threw |-> FALSE, rej |-> FALSE, short |-> FALSE]

\* lines 317-331 (and 350-363): the .catch handler attached to each task
SectionCatchRethrows(s, msg) == [evs |-> <<>>, rethrow |-> TRUE]

SectionCatch(s, msg) ==
  [evs |-> OnDiagram(s, 0, "none", msg), rethrow |-> FALSE]

\* the task's promise rejects with `msg`: "rateLimit" for a RateLimitError,
\* "error" for any other error
Rejected(s, msg) ==
  LET c == SectionCatch(s, msg)
  IN [t |-> SettledTask, evs |-> c.evs, threw |-> TRUE, rej |-> c.rethrow,
      short |-> FALSE]

\* lines 283-290: no visual for the section -> section-level error
Final(t, s) ==
  IF t.visualsGenerated = 0
  THEN LET allRejected == t.segmentsRejected > 0
               /\ (t.segmentsRejected + t.segmentsSkipped) >= t.nsegs
       IN Res(SettledTask,
              OnDiagram(s, 0, "none",
                        IF allRejected THEN "allRejected" ELSE "genFailed"))
  ELSE Res(SettledTask, <<>>)

\* lines 247-281: the fallback decision after the segment loop
\* (long: the section's text has the 80 characters line 254 asks for)
AfterLoopIgnoresQuota(t, s, tot, long) ==
  IF t.visualsGenerated = 0 /\ long
  THEN Res([t EXCEPT !.pc = "generate", !.fallback = TRUE], <<>>)
  ELSE Final(t, s)

AfterLoop(t, s, tot, long) ==
  IF t.visualsGenerated = 0 /\ tot < MAX_TOTAL_VISUALS
  THEN IF long
       THEN Res([t EXCEPT !.pc = "generate", !.fallback = TRUE], <<>>)
       ELSE [Final(t, s) EXCEPT !.short = TRUE]
  ELSE Final(t, s)

\* lines 177-188: head of the segment loop, t.idx is the segment to process
LoopHeadNoCap(t, s, tot, long) ==
  IF t.idx > t.nsegs THEN AfterLoop(t, s, tot, long)
  ELSE IF tot >= MAX_TOTAL_VISUALS THEN AfterLoop(t, s, tot, long)
  ELSE Res([t EXCEPT !.pc = "evaluateSegment"], <<>>)

LoopHead(t, s, tot, long) ==
  IF t.idx > Min(t.nsegs, maxSegmentsPerSection) THEN AfterLoop(t, s, tot, long)
  ELSE IF tot >= MAX_TOTAL_VISUALS THEN AfterLoop(t, s, tot, long)
  ELSE Res([t EXCEPT !.pc = "evaluateSegment"], <<>>)

\* lines 204-213: the final quota check, then createVisualRequest
FinalCheckMissing(t, s, tot, long) == Res([t EXCEPT !.pc = "generate"], <<>>)

FinalCheck(t, s, tot, long) ==
  IF tot >= MAX_TOTAL_VISUALS THEN AfterLoop(t, s, tot, long)
  ELSE Res([t EXCEPT !.pc = "generate"], <<>>)

\* `continue` of the segment loop
Continue(t, s, tot, long) == LoopHead([t EXCEPT !.idx = @ + 1], s, tot, long)

\* line 294: the delay before a retry, in seconds
WaitTimeNoBackoff(retryAfter, retryCount) == retryCount * RetryDelayUnit

WaitTime(retryAfter, retryCount) ==
  IF retryAfter # 0 THEN retryAfter ELSE (retryCount + 1) * RetryDelayUnit

\* line 293: may a rate-limited attempt be retried
MayRetryInclusive(retryCount) == retryCount <= maxRetries

MayRetry(retryCount) == retryCount < maxRetries

\* lines 291-302 and 317-331: a RateLimitError reached the outer catch
RateLimited(t, s, retryAfter) ==
  IF MayRetry(t.retryCount)
  THEN Res([IdleTask EXCEPT !.pc = "retryWait", !.retryCount = t.retryCount,
                            !.waitTime = WaitTime(retryAfter, t.retryCount)],
           <<>>)
  ELSE Rejected(s, "rateLimit")

\* lines 111-137: processSectionVisual(planItem, rc) up to its first await
ProcessSectionVisual(s, rc, tot, found) ==
  IF tot >= MAX_TOTAL_VISUALS
  THEN Res(SettledTask, OnDiagram(s, 0, "none", "quota"))
  ELSE IF ~found THEN Rejected(s, "error")
  ELSE Res([IdleTask EXCEPT !.pc = "prepare", !.retryCount = rc], <<>>)

\* lines 307-316: the function handed to the limiter
LimitedFn(s, tot, found) ==
  IF tot >= MAX_TOTAL_VISUALS
  THEN Res(SettledTask, OnDiagram(s, 0, "none", "quota"))
  ELSE ProcessSectionVisual(s, 0, tot, found)

\* --------------------------------------------------------------- limiter
\* a guard that admits every queued task at once
LimiterUnbounded(run, q) == q = <<>>

\* line 30: the guard of ConcurrencyLimiter.process
LimiterBusyOffByOne(run, q) == run > maxConcurrent \/ q = <<>>

LimiterBusy(run, q) == run >= maxConcurrent \/ q = <<>>

\* A world is the part of the state the microtask continuations change.
World(pl, tk, q, run, str, hi, ph, h) ==
  [plan |-> pl, task |-> tk, queue |-> q, running |-> run, stream |-> str,
   hist |-> hi, rejected |-> FALSE, phase |-> ph, hpc |-> h]

\* lines 63 and 77-78: the non-skipped plan items of each priority
P1(pl) == {s \in Sec : ~pl[s].skip /\ pl[s].priority = 1}
P2(pl) == {s \in Sec : ~pl[s].skip /\ pl[s].priority = 2}

\* ConcurrencyLimiter.process, repeated by the finally block of every task
\* that settles without suspending.  (Events of one microtask drain are
\* recorded in queue order.)
RECURSIVE Drain(_, _, _)
Drain(W, tot, found) ==
  IF LimiterBusy(W.running, W.queue) THEN W
  ELSE LET s == Head(W.queue)
           r == LimitedFn(s, tot, found[s])
           settled == r.t.pc = "settled"
       IN Drain([W EXCEPT !.task[s] = r.t,
                          !.queue = Tail(@),
                          !.running = IF settled THEN @ ELSE @ + 1,
                          !.stream = @ \o r.evs,
                          !.hist[s].threw = r.threw,
                          !.rejected = @ \/ r.rej],
                tot, found)

BatchSeq(P) == SelectSeq([i \in 1..NSec |-> i], LAMBDA s : s \in P)

AllSettled(tk, P) == \A s \in P : tk[s].pc = "settled"

\* lines 306-316: batch.map(planItem => limiter.execute(...))
Launch(W, P, tot, found) ==
  Drain([W EXCEPT !.task = [s \in Sec |-> IF s \in P THEN QueuedTask ELSE @[s]],
                  !.queue = @ \o BatchSeq(P)],
        tot, found)

\* line 87-88: execute returned
SendComplete(W) ==
  [W EXCEPT !.stream = Append(@, Ev("complete", 0, 0, "none")),
            !.phase = "returned", !.hpc = "done"]

\* lines 91-95: execute rejected
SendError(W) ==
  [W EXCEPT !.stream = Append(@, Ev("error", 0, 0, "error")),
            !.phase = "returned", !.hpc = "done"]

\* line 334: await Promise.all(priority1Promises)
P1JoinedNoAwait(tk, pl) == TRUE

P1Joined(tk, pl) == AllSettled(tk, P1(pl))

\* line 366: await Promise.all(priority2Promises)
P2JoinedNoAwait(tk, pl) == TRUE

P2Joined(tk, pl) == AllSettled(tk, P2(pl))

\* lines 336-369: the priority-2 batch, when the quota still has room
AfterP1(W, tot, found) ==
  IF tot < MAX_TOTAL_VISUALS
  THEN LET W2 == Launch([W EXCEPT !.phase = "p2"], P2(W.plan), tot, found)
       IN IF W2.rejected THEN SendError(W2)
          ELSE IF P2Joined(W2.task, W.plan) THEN SendComplete(W2)
          ELSE W2
  ELSE SendComplete(W)

\* the continuations of execute and of the handler that become runnable
\* once task promises have settled
Join(W, tot, found) ==
  IF W.hpc # "executing" THEN W
  ELSE IF W.rejected THEN SendError(W)
  ELSE IF W.phase = "p1" /\ P1Joined(W.task, W.plan) THEN AfterP1(W, tot, found)
  ELSE IF W.phase = "p2" /\ P2Joined(W.task, W.plan) THEN SendComplete(W)
  ELSE W

\* lines 59-79 and 306: execute(plan, paperData, onDiagram)
Execute(W, tot, found) ==
  IF P1(W.plan) \cup P2(W.plan) = {} THEN SendComplete(W)
  ELSE Join(Launch([W EXCEPT !.phase = "p1"], P1(W.plan), tot, found), tot, found)

\* --------------------------------------------------------- initial state
NoPlan == [s \in Sec |-> [priority |-> 2, skip |-> TRUE]]

Init ==
  /\ hpc = "start"
  /\ stream = <<>>
  /\ plan = NoPlan
  /\ phase = "none"
  /\ totalVisualsGenerated = 0
  /\ running = 0
  /\ queue = <<>>
  /\ task = [s \in Sec |-> IdleTask]
  /\ hist = [s \in Sec |-> IdleHist]
  /\ genOk = {}
  /\ faults = 0
  /\ rlCount = 0
  /\ authFailed = FALSE
  /\ ppc = "off"
  /\ pnow = 0
  /\ currentInterval = 0
  /\ pollAttempt = 0
  /\ pollErr = FALSE
  /\ CompIdle
  /\ status = "none"

SetWorld(W) ==
  /\ plan' = W.plan
  /\ task' = W.task
  /\ queue' = W.queue
  /\ running' = W.running
  /\ stream' = W.stream
  /\ hist' = W.hist
  /\ phase' = W.phase
  /\ hpc' = W.hpc

\* the plans createPlan may return: priority and skip flag per item.  Items
\* with skip = true (filtered out at line 63) are listed last.
PlanChoices ==
  {pl \in [Sec -> [priority : {1, 2}, skip : BOOLEAN]] :
     /\ \A s \in Sec : pl[s].skip => pl[s].priority = 2
     /\ \A s \in Sec \ {NSec} : pl[s].skip => pl[s + 1].skip}

\* found[s] is the result findSectionData (lines 82-108) has for plan item
\* s; it is drawn in the step in which the item's task may start
Founds ==
  {f \in [Sec -> BOOLEAN] :
     \A s \in Sec : task[s].pc \notin {"idle", "queued"} => f[s]}

\* ------------------------------------------------------- handler actions
\* analyze.js lines 24-30: the request body is validated
ReceiveRequest ==
  /\ hpc = "start"
  /\ \E valid \in BOOLEAN :
       IF valid
       THEN hpc' = "planning" /\ UNCHANGED stream
       ELSE hpc' = "done" /\ stream' = Append(stream, Ev("error", 0, 0, "invalid"))
  /\ UNCHANGED <<plan, phase, totalVisualsGenerated, running, queue, task,
                 hist, genOk, faults, rlCount, authFailed>>
  /\ UNCHANGED <<pollVars, compVars>>

\* analyze.js lines 36-45 and 91-95: createPlan threw (quota message or not)
CreatePlanThrowsNoReturn ==
  /\ hpc = "planning"
  /\ \E msg \in {"quota", "error"} :
       stream' = stream \o (IF msg = "quota"
                             THEN <<Ev("error", 0, 0, "quota"),
                                    Ev("error", 0, 0, "error")>>
                             ELSE <<Ev("error", 0, 0, "error")>>)
  /\ hpc' = "done"
  /\ UNCHANGED <<plan, phase, totalVisualsGenerated, running, queue, task,
                 hist, genOk, faults, rlCount, authFailed>>
  /\ UNCHANGED <<pollVars, compVars>>

CreatePlanThrows ==
  /\ hpc = "planning"
  /\ \E msg \in {"quota", "error"} :
       stream' = Append(stream, Ev("error", 0, 0, msg))
  /\ hpc' = "done"
  /\ UNCHANGED <<plan, phase, totalVisualsGenerated, running, queue, task,
                 hist, genOk, faults, rlCount, authFailed>>
  /\ UNCHANGED <<pollVars, compVars>>

\* analyze.js lines 56-61: nothing to visualize
CreatePlanNoContentNoReturn ==
  /\ hpc = "planning"
  /\ stream' = stream \o <<Ev("no_content", 0, 0, "reason"),
                            Ev("complete", 0, 0, "none"),
                            Ev("plan", 0, 0, "none"),
                            Ev("complete", 0, 0, "none")>>
  /\ hpc' = "done"
  /\ phase' = "returned"
  /\ UNCHANGED <<plan, totalVisualsGenerated, running, queue, task,
                 hist, genOk, faults, rlCount, authFailed>>
  /\ UNCHANGED <<pollVars, compVars>>

CreatePlanNoContent ==
  /\ hpc = "planning"
  /\ stream' = stream \o <<Ev("no_content", 0, 0, "reason"),
                            Ev("complete", 0, 0, "none")>>
  /\ hpc' = "done"
  /\ UNCHANGED <<plan, phase, totalVisualsGenerated, running, queue, task,
                 hist, genOk, faults, rlCount, authFailed>>
  /\ UNCHANGED <<pollVars, compVars>>

\* analyze.js lines 63-88: the plan is sent and execute is called
CreatePlanReturns ==
  /\ hpc = "planning"
  /\ \E pl \in PlanChoices, found \in Founds :
       SetWorld(Execute(World(pl, task, queue, running,
                              Append(stream, Ev("plan", 0, 0, "none")),
                              hist, "none", "executing"),
                        totalVisualsGenerated, found))
  /\ UNCHANGED <<totalVisualsGenerated, genOk, faults, rlCount, authFailed>>
  /\ UNCHANGED <<pollVars, compVars>>

\* ---------------------------------------------------------- task actions
\* A task's step ends at its next await or with its settling; when it
\* settles the limiter's finally block (lines 42-45) and the joins run.
Commit(s, r, tot, hi, found) ==
  LET settled == r.t.pc = "settled"
      W0 == [World(plan, [task EXCEPT ![s] = r.t], queue,
                   IF settled THEN running - 1 ELSE running,
                   stream \o r.evs,
                   [hi EXCEPT ![s].threw = @ \/ r.threw,
                              ![s].short = @ \/ r.short], phase, hpc)
             EXCEPT !.rejected = r.rej]
      W1 == IF settled THEN Drain(W0, tot, found) ELSE W0
  IN /\ SetWorld(Join(W1, tot, found))
     /\ totalVisualsGenerated' = tot

\* a failing or rejecting answer uses up one unit of the fault budget
Fault(abnormal) ==
  /\ abnormal => 2 * (faults + 1) + rlCount <= FaultBudget
  /\ faults' = IF abnormal THEN faults + 1 ELSE faults

\* lines 189-193: the segment's evaluation is not worthy
SegmentRejectedNoContinue(t, s, tot, long) ==
  FinalCheck([t EXCEPT !.segmentsRejected = @ + 1], s, tot, long)

SegmentRejected(t, s, tot, long) ==
  Continue([t EXCEPT !.segmentsRejected = @ + 1], s, tot, long)

\* lines 133-177: the section was prepared.  processSection, the section's
\* evaluateContent and segmentContent are awaited one after the other and
\* touch nothing shared in between: one of them threw, or the evaluation
\* was not worthy, or the Segmenter returned n >= 1 segments.
SectionPrepared(s) ==
  /\ task[s].pc = "prepare"
  /\ \E out \in {"throw", "rejected", "segments"}, n \in 1..MaxSegments,
        long \in BOOLEAN, found \in Founds :
       /\ out # "segments" => n = 1
       /\ Fault(out # "segments")
       /\ Commit(s,
              CASE out = "throw" -> Rejected(s, "error")
                [] out = "rejected" ->
                     Res(SettledTask, OnDiagram(s, 0, "none", "rejected"))
                [] OTHER ->
                     LoopHead([task[s] EXCEPT !.nsegs = n, !.idx = 1],
                              s, totalVisualsGenerated, long),
              totalVisualsGenerated, hist, found)
  /\ UNCHANGED <<genOk, rlCount, authFailed>>
  /\ UNCHANGED <<pollVars, compVars>>

\* lines 188-208: the segment's evaluation, then the final quota check.
\* (The text-too-short branch of line 198 cannot be taken: a worthy
\* evaluation needs 30 words, which are at least 59 characters.)
EvaluateSegmentReturns(s) ==
  /\ task[s].pc = "evaluateSegment"
  /\ \E worthy \in BOOLEAN, long \in BOOLEAN, found \in Founds :
       /\ Fault(~worthy)
       /\ Commit(s,
              IF ~worthy
              THEN SegmentRejected(task[s], s, totalVisualsGenerated, long)
              ELSE FinalCheck(task[s], s, totalVisualsGenerated, long),
              totalVisualsGenerated, hist, found)
  /\ UNCHANGED <<genOk, rlCount, authFailed>>
  /\ UNCHANGED <<pollVars, compVars>>

\* after a segment's or the fallback's generation: the loop goes on, the
\* fallback falls through to line 284
AfterUnit(t, s, tot, long) ==
  IF t.fallback THEN Final(t, s) ELSE Continue(t, s, tot, long)

\* lines 213-244 and 257-277: the unit's generation ended.  Its three calls
\* (createVisualRequest, pollUntilComplete, downloadAndServeSVG) are awaited
\* one after the other and touch nothing shared in between.
\*   svg      a non-empty artifact was downloaded
\*   emptySvg the artifact is empty after sanitising: the callback sends
\*            nothing, the counters are incremented
\*   noFiles  the poll returned no file
\*   error    one of the calls threw an error that is neither a
\*            RateLimitError nor an AuthError
\*   authError createVisualRequest threw AuthError (client.js lines 106-108)
GenerationReturns(s) ==
  /\ task[s].pc = "generate"
  /\ \E out \in {"svg", "emptySvg", "noFiles", "error", "authError"},
        long \in BOOLEAN, found \in Founds :
       LET t == task[s]
           g == IF t.fallback THEN 0 ELSE t.idx
           made == out \in {"svg", "emptySvg"}
           tot == IF made THEN totalVisualsGenerated + 1
                  ELSE totalVisualsGenerated
           t1 == CASE made -> [t EXCEPT !.visualsGenerated = @ + 1]
                   [] out = "noFiles" -> [t EXCEPT !.segmentsSkipped = @ + 1]
                   [] OTHER -> t
           r == AfterUnit(t1, s, tot, long)
           evs == IF made THEN OnDiagram(s, g, out, "none") ELSE <<>>
       IN /\ Fault(out # "svg")
          /\ Commit(s, [r EXCEPT !.evs = evs \o @], tot, hist, found)
          /\ authFailed' = (authFailed \/ out = "authError")
          /\ genOk' = IF out = "svg" THEN genOk \cup {<<s, t.retryCount, g>>}
                      ELSE genOk
  /\ UNCHANGED rlCount
  /\ UNCHANGED <<pollVars, compVars>>

\* client.js lines 101-104, executor lines 240-243, 274-276 and 291-302:
\* the service answered the unit's createVisualRequest with 429
GenerationRateLimited(s) ==
  /\ task[s].pc = "generate"
  /\ 2 * faults + rlCount + 1 <= FaultBudget
  /\ Cardinality({r \in Sec : hist[r].firstRA # -1} \cup {s})
       <= MaxRateLimitedSections
  /\ \E retryAfter \in RetryAfterVals, found \in Founds :
       Commit(s, RateLimited(task[s], s, retryAfter), totalVisualsGenerated,
              [hist EXCEPT ![s].firstRA = IF @ = -1 THEN retryAfter ELSE @,
                           ![s].exhausted = ~MayRetry(task[s].retryCount)],
              found)
  /\ rlCount' = rlCount + 1
  /\ UNCHANGED <<genOk, faults, authFailed>>
  /\ UNCHANGED <<pollVars, compVars>>

\* lines 296-297: the retry timer fired, the section is processed again
RetryTimerFires(s) ==
  /\ task[s].pc = "retryWait"
  /\ \E found \in Founds :
       Commit(s,
              ProcessSectionVisual(s, task[s].retryCount + 1,
                                   totalVisualsGenerated, TRUE),
              totalVisualsGenerated,
              [hist EXCEPT ![s].delay = IF task[s].retryCount = 0
                                        THEN task[s].waitTime ELSE @],
              found)
  /\ UNCHANGED <<genOk, faults, rlCount, authFailed>>
  /\ UNCHANGED <<pollVars, compVars>>

Next ==
  \/ ReceiveRequest
  \/ CreatePlanThrows
  \/ CreatePlanNoContent
  \/ CreatePlanReturns
  \/ \E s \in Sec : SectionPrepared(s)
  \/ \E s \in Sec : EvaluateSegmentReturns(s)
  \/ \E s \in Sec : GenerationReturns(s)
  \/ \E s \in Sec : GenerationRateLimited(s)
  \/ \E s \in Sec : RetryTimerFires(s)

Spec == Init /\ [][Next]_vars

\* ---------------------------------------------------------------- poller
\* pollUntilComplete (napkin/poller.js) on its own: one call with the default
\* options, as the executor makes it at lines 219 and 262.
initialInterval == 2000
maxInterval == 10000
timeout == 60000

\* time a getVisualStatus call may take, in ms
StatusLatencies == {0, 1000}

\* what a getVisualStatus call may give: a status of the service, or a throw
\* ("error": any error that is not an AuthError, "authError": AuthError)
StatusAnswers ==
  {"completed", "failed", "pending", "processing", "unknown", "error",
   "authError"}


\* the handler and the executor before a request arrives
MainIdle ==
  /\ Init!1 /\ Init!2 /\ Init!3 /\ Init!4 /\ Init!5 /\ Init!6 /\ Init!7
  /\ Init!8 /\ Init!9 /\ Init!10 /\ Init!11 /\ Init!12 /\ Init!13

\* no poll in progress
PollIdle == Init!14 /\ Init!15 /\ Init!16 /\ Init!17 /\ Init!18 /\ Init!20

\* everything but one component is idle
NotGenIdle ==
  MainIdle /\ PollIdle /\ SegIdle /\ EvalIdle /\ PlanIdle /\ CallerIdle
    /\ ClientIdle
    /\ CacheIdle
    /\ LimiterIdle
NotSegIdle ==
  MainIdle /\ PollIdle /\ GenIdle /\ EvalIdle /\ PlanIdle /\ CallerIdle
    /\ ClientIdle
    /\ CacheIdle
    /\ LimiterIdle
NotEvalIdle ==
  MainIdle /\ PollIdle /\ GenIdle /\ SegIdle /\ PlanIdle /\ CallerIdle
    /\ ClientIdle
    /\ CacheIdle
    /\ LimiterIdle
NotPlanIdle ==
  MainIdle /\ PollIdle /\ GenIdle /\ SegIdle /\ EvalIdle /\ CallerIdle
    /\ ClientIdle
    /\ CacheIdle
    /\ LimiterIdle
NotClientIdle ==
  MainIdle /\ PollIdle /\ GenIdle /\ SegIdle /\ EvalIdle /\ PlanIdle /\ CallerIdle
    /\ CacheIdle
    /\ LimiterIdle
NotCacheIdle ==
  MainIdle /\ PollIdle /\ GenIdle /\ SegIdle /\ EvalIdle /\ PlanIdle /\ CallerIdle /\ ClientIdle
    /\ LimiterIdle
NotLimiterIdle ==
  MainIdle /\ PollIdle /\ GenIdle /\ SegIdle /\ EvalIdle /\ PlanIdle /\ CallerIdle /\ ClientIdle /\ CacheIdle

\* lines 32-38
PollStart ==
  /\ ppc = "check"
  /\ pnow = 0
  /\ currentInterval = initialInterval
  /\ pollAttempt = 0
  /\ pollErr = FALSE
  /\ status = "none"

PollInit ==
  /\ MainIdle
  /\ PollStart
  /\ CompIdle

\* lines 41-48: the timeout check at the head of the loop
PollCheck ==
  /\ ppc = "check"
  /\ IF pnow >= timeout
     THEN ppc' = "TimeoutError" /\ UNCHANGED pollAttempt
     ELSE ppc' = "status" /\ pollAttempt' = pollAttempt + 1
  /\ UNCHANGED <<pnow, currentInterval, pollErr, status>>
  /\ UNCHANGED <<mainVars, compVars>>

\* a catch block that rethrows nothing
PollCatchSwallows(answer) == FALSE

\* lines 58-60 and 74-77: status "failed" throws NapkinFailedError inside
\* the try block; the catch block throws on that error only
PollCatchRethrows(answer) == answer = "failed"

\* lines 50-63 and 70-79: getVisualStatus settled
StatusReturns ==
  /\ ppc = "status"
  /\ \E lat \in StatusLatencies, answer \in StatusAnswers :
       /\ pnow' = pnow + lat
       /\ ppc' = CASE answer = "completed" -> "returned"
                   [] answer \in {"failed", "error", "authError"} ->
                        IF PollCatchRethrows(answer)
                        THEN (IF answer = "failed" THEN "NapkinFailedError"
                              ELSE "Error")
                        ELSE "sleep"
                   [] OTHER -> "sleep"
       /\ pollErr' = (pollErr \/ answer \in {"error", "authError"})
       /\ status' = answer
  /\ UNCHANGED <<currentInterval, pollAttempt>>
  /\ UNCHANGED <<mainVars, compVars>>

\* the backoff without its cap
BackoffUncapped(interval) == (interval * 3) \div 2

\* lines 66, 73 and 81: Math.min(currentInterval * 1.5, maxInterval)
Backoff(interval) == Min((interval * 3) \div 2, maxInterval)

\* lines 65-67, 72-73 and 80-81: sleep(currentInterval), then the backoff
SleepEnds ==
  /\ ppc = "sleep"
  /\ pnow' = pnow + currentInterval
  /\ currentInterval' = Backoff(currentInterval)
  /\ ppc' = "check"
  /\ UNCHANGED <<pollAttempt, pollErr, status>>
  /\ UNCHANGED <<mainVars, compVars>>

PollNext == PollCheck \/ StatusReturns \/ SleepEnds

PollSpec == PollInit /\ [][PollNext]_vars

\* ------------------------------------------------------- stream queries
Idx(types) == {i \in DOMAIN stream : stream[i].type \in types}
Count(types) == Cardinality(Idx(types))
Planned == Count({"plan"}) > 0
LastIs(types) == stream # <<>> /\ stream[Len(stream)].type \in types
Admitted == P1(plan) \cup P2(plan)
HasEvent(s, types) == \E i \in Idx(types) : stream[i].sec = s
HasReason(s, r) ==
  \E i \in Idx({"section_error"}) : stream[i].sec = s /\ stream[i].reason = r
FaultFree ==
  faults = 0 /\ rlCount = 0 /\ \A s \in Sec : ~hist[s].threw

\* ------------------------------------------------------------------- C1
\* C1: in every run, under every interleaving of the section tasks, at most
\* MAX_TOTAL_VISUALS diagram events (each carries a non-empty artifact) are
\* sent.
C1_QuotaExact == Count({"diagram"}) <= MAX_TOTAL_VISUALS

\* ------------------------------------------------------------------- C2
\* C2 as stated: when the handler has ended, exactly one event out of
\* complete, no_content and error has been sent.
C2_OneTerminalOfThree ==
  hpc = "done" => Count({"complete", "no_content", "error"}) = 1

\* C2 amended: on every path the stream is closed by exactly one event out
\* of complete and error, which is its last event and is sent only when the
\* handler ends; no_content is sent at most once, and then the stream is
\* no_content followed by complete.
C2_OneClosingEvent ==
  /\ hpc # "done" => Count({"complete", "error"}) = 0
  /\ hpc = "done" => /\ Count({"complete", "error"}) = 1
                     /\ LastIs({"complete", "error"})
  /\ Count({"no_content"}) > 0 =>
       stream = <<Ev("no_content", 0, 0, "reason"), Ev("complete", 0, 0, "none")>>

\* the run ended with complete although a section failed
C2_Witness ==
  /\ hpc = "done"
  /\ LastIs({"complete"})
  /\ \E s \in Sec : hist[s].threw /\ HasEvent(s, {"section_error"})

\* ------------------------------------------------------------------- C3
\* C3: the plan event precedes every diagram and section_error event; the
\* complete event is sent at most once, nothing is sent after it, and a run
\* that executed its plan has sent it exactly once when the handler ends.
C3_PlanFirstCompleteLast ==
  /\ \A i \in Idx({"diagram", "section_error"}) :
       \E j \in Idx({"plan"}) : j < i
  /\ Count({"complete"}) <= 1
  /\ \A i \in Idx({"complete"}) : i = Len(stream)
  /\ (hpc = "done" /\ Planned) => Count({"complete"}) = 1

\* a finished run with a diagram and a section_error between plan and
\* complete
C3_Witness ==
  /\ hpc = "done"
  /\ Planned
  /\ Count({"diagram"}) > 0
  /\ Count({"section_error"}) > 0
  /\ LastIs({"complete"})

\* ------------------------------------------------------------------- C4
\* C4: when complete is sent, every non-skipped plan item has had a diagram
\* or a section_error/skip event of its own, whatever its priority and
\* whether or not the quota was reached before it started.
C4_EveryItemTerminalBeforeComplete ==
  Count({"complete"}) > 0 =>
    \A s \in Admitted : HasEvent(s, {"diagram", "section_error"})

\* ------------------------------------------------------------------- C5
\* C5: no priority-2 item is queued or started before every priority-1 item
\* has settled.
C5_Priority1First ==
  \A s \in P2(plan) : task[s].pc # "idle" => AllSettled(task, P1(plan))

\* a priority-2 section is being processed after a priority-1 batch
C5_Witness ==
  /\ P1(plan) # {}
  /\ \E s \in P2(plan) : task[s].pc \in ActivePcs

\* ------------------------------------------------------------------- C6
\* C6: at most maxConcurrent section tasks hold a limiter slot, limiter.running
\* counts exactly those tasks, and so at most maxConcurrent generation calls
\* are in flight.
C6_BoundedConcurrency ==
  /\ running <= maxConcurrent
  /\ running = Cardinality({s \in Sec : task[s].pc \in ActivePcs})
  /\ Cardinality({s \in Sec : task[s].pc = "generate"}) <= maxConcurrent

\* both slots hold a task with a generation in flight while a third waits
C6_Witness ==
  /\ queue # <<>>
  /\ Cardinality({s \in Sec : task[s].pc = "generate"}) = maxConcurrent

C8_RetriesBounded ==
  /\ \A s \in Sec : task[s].retryCount <= maxRetries
  /\ \A s \in Sec : hist[s].exhausted =>
       /\ HasReason(s, "rateLimit")
       /\ Count({"error"}) = 0
       /\ hpc = "done" => LastIs({"complete"})

\* a section used up its retries and the run ended
C8_Witness ==
  /\ hpc = "done"
  /\ \E s \in Sec : hist[s].exhausted

\* ------------------------------------------------------------------- C9
\* C9: when a unit's first attempt was answered 429 with Retry-After 5 and a
\* generation of its second attempt succeeded, its diagram event has been
\* sent, at least 5 seconds were waited before the second attempt, and the
\* attempt number is within maxRetries.
C9_RetryAfterHonoured ==
  \A g \in genOk :
    (g[2] = 1 /\ hist[g[1]].firstRA = 5) =>
      /\ \E i \in Idx({"diagram"}) : stream[i].sec = g[1] /\ stream[i].seg = g[3]
      /\ hist[g[1]].delay >= 5
      /\ g[2] <= maxRetries

\* a second attempt succeeded after a 429 with Retry-After 5
C9_Witness ==
  \E g \in genOk : g[2] = 1 /\ hist[g[1]].firstRA = 5

\* ------------------------------------------------------------------ C10
\* C10: a finished run of three admitted items with priorities 1, 1, 2 in
\* which nothing failed has exactly 2 diagram events, exactly 1 section_error
\* event, whose reason is the quota, and ends with its only complete event.
Plan112 ==
  /\ \A s \in Sec : s <= 3 <=> ~plan[s].skip
  /\ plan[1].priority = 1 /\ plan[2].priority = 1 /\ plan[3].priority = 2

C10_Scenario112 ==
  (hpc = "done" /\ Plan112 /\ FaultFree) =>
    /\ Count({"diagram"}) = 2
    /\ Count({"section_error"}) = 1
    /\ \A i \in Idx({"section_error"}) : stream[i].reason = "quota"
    /\ Count({"complete"}) = 1
    /\ LastIs({"complete"})

\* ------------------------------------------------------------------ C11
\* C11: when createPlan reports nothing to visualize (the handler ends
\* having sent neither a plan nor an error event), the stream is exactly one
\* no_content event followed by complete, and execute was never called: its
\* position is still "none", no task was queued, the counter is 0.
C11_NoContentPath ==
  (Count({"no_content"}) > 0 \/ (hpc = "done" /\ Count({"plan", "error"}) = 0)) =>
    /\ stream = <<Ev("no_content", 0, 0, "reason"), Ev("complete", 0, 0, "none")>>
    /\ phase = "none"
    /\ \A s \in Sec : task[s].pc = "idle"
    /\ queue = <<>> /\ running = 0 /\ totalVisualsGenerated = 0

\* the handler ended on the no-content path
C11_Witness ==
  /\ hpc = "done"
  /\ Count({"no_content"}) = 1
  /\ LastIs({"complete"})

\* ------------------------------------------------------------------ C12
\* C12: whatever number of segments the Segmenter returned, the segment
\* being evaluated or generated is one of the first maxSegmentsPerSection,
\* and so is the segment of every delivered artifact and diagram event.
C12_SegmentCap ==
  /\ \A s \in Sec :
       (task[s].pc \in {"evaluateSegment", "generate"} /\ ~task[s].fallback) =>
         /\ task[s].idx >= 1
         /\ task[s].idx <= maxSegmentsPerSection
         /\ task[s].idx <= task[s].nsegs
  /\ \A g \in genOk : g[3] <= maxSegmentsPerSection
  /\ \A i \in Idx({"diagram"}) : stream[i].seg <= maxSegmentsPerSection

\* the Segmenter returned more segments than the cap, the first two were
\* processed without an artifact, and the section is at its fallback: the
\* third segment was passed over
C12_Witness ==
  \E s \in Sec : /\ task[s].nsegs > maxSegmentsPerSection
                 /\ task[s].idx = maxSegmentsPerSection + 1
                 /\ task[s].fallback
                 /\ task[s].pc = "generate"

\* ------------------------------------------------------------------ C13
NewEvents == SubSeq(stream', Len(stream) + 1, Len(stream'))

\* the step in which section s submits its fallback generation
EntersFallback(s) == ~task[s].fallback /\ task'[s].fallback

\* the step in which section s ends with the no-artifact section_error
EndsWithoutArtifact(s) ==
  /\ task[s].pc \in ActivePcs
  /\ task'[s].pc = "settled"
  /\ \E i \in DOMAIN NewEvents :
       /\ NewEvents[i].sec = s
       /\ NewEvents[i].reason \in {"genFailed", "allRejected"}

\* what holds of the fallback in every step, whatever the section's text
FallbackOnlyWhenAllowed(s) ==
  /\ EntersFallback(s) =>
       /\ task[s].pc \in {"prepare", "evaluateSegment", "generate"}
       /\ task[s].visualsGenerated = 0
       /\ totalVisualsGenerated' < MAX_TOTAL_VISUALS
       /\ task'[s].pc = "generate"
  /\ task[s].fallback =>
       \/ task'[s] = task[s]
       \/ task'[s].pc \in {"settled", "retryWait"}

C14_AuthFailureFatal ==
  authFailed =>
    /\ hpc = "done"
    /\ Count({"error"}) = 1
    /\ LastIs({"error"})

\* ------------------------------------------------------------------ C15
\* C15 (checked on the poller, PollSpec): once a status request made for a
\* unit has failed with an error (auth failure, server error, network
\* error), no further status request is issued for that unit.
C15_NoRequestAfterError == ~(pollErr /\ ppc = "status")

\* ------------------------------------------------------------------ C16
\* the reason of the no-artifact section_error sent for s in this step
EndReason(s) ==
  LET i == CHOOSE i \in DOMAIN NewEvents :
             /\ NewEvents[i].sec = s
             /\ NewEvents[i].reason \in {"genFailed", "allRejected"}
  IN NewEvents[i].reason

\* the segments of s processed so far (all but the one at t.idx) were each
\* rejected by the Evaluator or skipped
AllRejectedOrSkipped(t) == t.segmentsRejected + t.segmentsSkipped = t.idx - 1

\* C16, for the sections that end without an artifact after their fallback
\* attempt, or at a segment's evaluation while the quota is not exhausted
\* (so that it is the rejection of that segment that ends the loop): the
\* reason of the section_error is the content-rejected one exactly when at
\* least one processed segment was rejected and every processed segment was
\* rejected or skipped, and the generation-failed one otherwise, whatever
\* number of segments the Segmenter returned.
C16_ReasonTellsCause ==
  [][\A s \in Sec :
       /\ (EndsWithoutArtifact(s) /\ task[s].fallback) =>
            (EndReason(s) = "allRejected" <=>
               (task[s].segmentsRejected > 0 /\ AllRejectedOrSkipped(task[s])))
       /\ (/\ EndsWithoutArtifact(s)
           /\ task[s].pc = "evaluateSegment"
           /\ totalVisualsGenerated' < MAX_TOTAL_VISUALS) =>
            (EndReason(s) = "allRejected" <=> AllRejectedOrSkipped(task[s]))]_vars

\* ------------------------------------------------------------------ C17
\* section s gets the quota skip event in this step
QuotaEventFor(s) ==
  \E i \in DOMAIN NewEvents :
    NewEvents[i].sec = s /\ NewEvents[i].reason = "quota"

\* an attempt of section s starts in this step: its first awaited call is made
StartsProcessing(s) ==
  task[s].pc \in {"idle", "queued", "retryWait"} /\ task'[s].pc = "prepare"

\* section s ends in this step, after the generation of a segment that is
\* not its last one, because the quota is exhausted
LeavesSegmentUnstarted(s) ==
  /\ task[s].pc = "generate" /\ ~task[s].fallback
  /\ task[s].idx < Min(task[s].nsegs, maxSegmentsPerSection)
  /\ task'[s].pc = "settled" /\ ~hist'[s].threw
  /\ totalVisualsGenerated' >= MAX_TOTAL_VISUALS

\* C17: a section or segment that has not started when the counter has
\* reached MAX_TOTAL_VISUALS gets a skip event with the quota reason and no
\* call is made for it: an attempt starts only below the quota; the quota
\* event goes to a section that was waiting and ends it at once; a segment
\* left unstarted by the quota gets the quota event; and when the handler
\* ends, every admitted plan item that was never started has its quota event.
C17_UnstartedUnitsSkipped ==
  /\ [][\A s \in Sec :
         /\ StartsProcessing(s) => totalVisualsGenerated' < MAX_TOTAL_VISUALS
         /\ QuotaEventFor(s) =>
              /\ task[s].pc \in {"idle", "queued", "retryWait"}
              /\ task'[s].pc = "settled"
         /\ LeavesSegmentUnstarted(s) => QuotaEventFor(s)]_vars
  /\ []((hpc = "done" /\ Planned) =>
          \A s \in Admitted : task[s].pc = "idle" => HasReason(s, "quota"))

\* ------------------------------------------------------------------ C18
\* section s issues a createVisualRequest in this step, for a segment or for
\* its fallback
SubmitsUnit(s) == task'[s].pc = "generate" /\ task'[s] # task[s]

\* C18: whenever a createVisualRequest is issued the counter is below
\* MAX_TOTAL_VISUALS; and a step that raises the counter changes no task
\* with a generation in flight but the one whose generation returned.
C18_SubmitBelowQuota ==
  [][/\ \A s \in Sec :
          SubmitsUnit(s) => /\ totalVisualsGenerated < MAX_TOTAL_VISUALS
                            /\ totalVisualsGenerated' < MAX_TOTAL_VISUALS
     /\ totalVisualsGenerated' > totalVisualsGenerated =>
          Cardinality({s \in Sec : /\ task[s].pc = "generate"
                                   /\ task'[s] # task[s]}) = 1]_vars

\* the quota is reached while a generation is still in flight
C18_Witness ==
  /\ totalVisualsGenerated = MAX_TOTAL_VISUALS
  /\ \E s \in Sec : task[s].pc = "generate"

\* ------------------------------------------------------------------ C19
\* C19: a section whose evaluation is not worthy gets its rejected event in
\* the step in which its preparation ends and is settled by it, and a
\* settled section never acts again, so neither the Segmenter nor the
\* Generation Client is called for it; a segment whose evaluation is not
\* worthy is not submitted, and every segment that is submitted comes
\* straight from its own evaluation, which did not reject it.
C19_RejectedNeverGenerated ==
  [][\A s \in Sec :
       /\ (\E i \in DOMAIN NewEvents :
              NewEvents[i].sec = s /\ NewEvents[i].reason = "rejected") =>
            task[s].pc = "prepare" /\ task'[s].pc = "settled"
       /\ task[s].pc = "settled" => task'[s] = task[s]
       /\ (/\ task[s].pc = "evaluateSegment"
           /\ task'[s].segmentsRejected > task[s].segmentsRejected) =>
            ~(task'[s].pc = "generate" /\ ~task'[s].fallback)
       /\ (SubmitsUnit(s) /\ ~task'[s].fallback) =>
            /\ task[s].pc = "evaluateSegment"
            /\ task'[s].idx = task[s].idx
            /\ task'[s].segmentsRejected = task[s].segmentsRejected]_vars

\* one section was rejected as a whole, another has had a segment rejected
\* and is evaluating its next one
C19_Witness ==
  \E s, r \in Sec :
    /\ HasReason(s, "rejected")
    /\ task[r].segmentsRejected > 0
    /\ task[r].pc = "evaluateSegment"

\* ------------------------------------------------------------------ C20
\* C20: over a whole run, rate-limit retries included, a segment of a
\* section is generated successfully in at most one attempt and has at most
\* one diagram event.
C20_SegmentConsumedOnce ==
  /\ \A a, b \in genOk : (a[1] = b[1] /\ a[3] = b[3]) => a[2] = b[2]
  /\ \A i, j \in Idx({"diagram"}) :
       (stream[i].sec = stream[j].sec /\ stream[i].seg = stream[j].seg) => i = j

\* ======================================================================
\* The generation path of one text unit: createVisualRequest, then
\* pollUntilComplete, then downloadAndServeSVG (executor.js lines 213-229
\* for a segment, 257-264 for the fallback) with the downloader's cache
\* (napkin/downloader.js).  The executor calls createVisualRequest first,
\* with nothing in front of it; the only cache of the server is keyed by the
\* file url and sits in front of the download.
\* ======================================================================
MaxSubmits == 2           \* most createVisualRequest calls per text
MaxTicks == 4             \* most clock advances
CACHE_TTL == 30 * 60 * 1000
DownloaderCacheLimit == 100
TickMs == 10 * 60 * 1000

Texts == {"textA", "textB"}
Urls == {"url1", "url2"}
\* svg files as the service may return them: markup tokens, with the opening
\* and the closing tag of a script element
RawSvgs == {<<"path">>,
            <<"path", "script", "code", "endscript", "rect">>,
            <<"script", "code">>}

\* downloader.js lines 54-57: /<script[\s\S]*?<\/script>/gi replaced by ''.
\* A script element is removed up to the first closing tag; an opening tag
\* that is never closed stays
RECURSIVE sanitizeSVG(_)
sanitizeSVG(svg) ==
  IF svg = <<>> THEN <<>>
  ELSE IF Head(svg) = "script"
            /\ \E j \in 2..Len(svg) : svg[j] = "endscript"
       THEN LET j == CHOOSE k \in 2..Len(svg) :
                       /\ svg[k] = "endscript"
                       /\ \A m \in 2..(k - 1) : svg[m] # "endscript"
            IN  sanitizeSVG(SubSeq(svg, j + 1, Len(svg)))
       ELSE <<Head(svg)>> \o sanitizeSVG(Tail(svg))

\* cache.get(fileUrl): the entry, or the empty sequence for undefined
CacheGet(c, u) ==
  IF \E i \in DOMAIN c : c[i].url = u
  THEN <<c[CHOOSE i \in DOMAIN c : c[i].url = u]>>
  ELSE <<>>

\* a hit test that ignores the age of the entry
CacheHitAnyAge(c, u, now) == CacheGet(c, u) # <<>>

\* downloader.js line 20
CacheHit(c, u, now) ==
  /\ CacheGet(c, u) # <<>>
  /\ now - CacheGet(c, u)[1].timestamp < CACHE_TTL

\* cache.set(fileUrl, {svg, timestamp}): a Map keeps the position of a key
\* it already holds
CacheSet(c, u, svg, now) ==
  LET e == [url |-> u, svg |-> svg, timestamp |-> now]
  IN  IF \E i \in DOMAIN c : c[i].url = u
      THEN [i \in DOMAIN c |-> IF c[i].url = u THEN e ELSE c[i]]
      ELSE Append(c, e)

\* entries.sort((a, b) => a[1].timestamp - b[1].timestamp): stable
SortByTimestamp(c) ==
  LET Before(j, i) ==
        \/ c[j].timestamp < c[i].timestamp
        \/ c[j].timestamp = c[i].timestamp /\ j < i
      Rank(i) == Cardinality({j \in DOMAIN c : Before(j, i)}) + 1
  IN  [r \in DOMAIN c |-> c[CHOOSE i \in DOMAIN c : Rank(i) = r]]

\* downloader.js lines 39-44: delete the oldest entries beyond the limit
CacheClean(c) ==
  IF Len(c) > DownloaderCacheLimit
  THEN LET sorted == SortByTimestamp(c)
           toDelete == {sorted[i].url :
                          i \in 1..(Len(c) - DownloaderCacheLimit)}
       IN  SelectSeq(c, LAMBDA e : e.url \notin toDelete)
  ELSE c

GenInit ==
  /\ NotGenIdle
  /\ gpc = "idle"
  /\ gtext = "none"
  /\ gurl = "none"
  /\ dcache = <<>>
  /\ clock = 0
  /\ submits = [x \in Texts |-> 0]
  /\ submittedAt = [x \in Texts |-> 0]
  /\ served = <<>>

\* executor.js lines 213-216 and 257-260: the text unit is submitted
CreateVisualRequest ==
  /\ gpc = "idle"
  /\ \E x \in Texts :
       /\ submits[x] < MaxSubmits
       /\ gtext' = x
       /\ submits' = [submits EXCEPT ![x] = @ + 1]
       /\ submittedAt' = [submittedAt EXCEPT ![x] = clock]
  /\ gpc' = "poll"
  /\ UNCHANGED <<gurl, dcache, clock, served>>
  /\ UNCHANGED NotGen

\* executor.js lines 219-229 and downloader.js lines 19-27: the poll returns
\* a file url; a fresh cache entry for it is served, otherwise the file is
\* downloaded
PollReturnsFile ==
  /\ gpc = "poll"
  /\ \E u \in Urls :
       /\ gurl' = u
       /\ IF CacheHit(dcache, u, clock)
          THEN /\ served' = CacheGet(dcache, u)[1].svg
               /\ gpc' = "idle"
          ELSE /\ served' = served
               /\ gpc' = "download"
  /\ UNCHANGED <<gtext, dcache, clock, submits, submittedAt>>
  /\ UNCHANGED NotGen

\* a download whose raw content goes into the cache
DownloadReturnsRaw ==
  /\ gpc = "download"
  /\ \E raw \in RawSvgs :
       /\ dcache' = CacheClean(CacheSet(dcache, gurl, raw, clock))
       /\ served' = sanitizeSVG(raw)
  /\ gpc' = "idle"
  /\ UNCHANGED <<gtext, gurl, clock, submits, submittedAt>>
  /\ UNCHANGED NotGen

\* downloader.js lines 27-46
DownloadReturns ==
  /\ gpc = "download"
  /\ \E raw \in RawSvgs :
       LET sanitized == sanitizeSVG(raw)
       IN  /\ dcache' = CacheClean(CacheSet(dcache, gurl, sanitized, clock))
           /\ served' = sanitized
  /\ gpc' = "idle"
  /\ UNCHANGED <<gtext, gurl, clock, submits, submittedAt>>
  /\ UNCHANGED NotGen

\* time passes
Tick ==
  /\ gpc # "off"
  /\ clock < MaxTicks * TickMs
  /\ clock' = clock + TickMs
  /\ UNCHANGED <<gpc, gtext, gurl, dcache, submits, submittedAt, served>>
  /\ UNCHANGED NotGen

GenNext == CreateVisualRequest \/ PollReturnsFile \/ DownloadReturns \/ Tick

GenSpec == GenInit /\ [][GenNext]_vars

\* ------------------------------------------------------------------ C21
\* C21: a text that was submitted less than the cache lifetime ago is not
\* submitted to the generation service again.
C21_OneSubmitPerText ==
  [][\A x \in Texts :
       submits'[x] > submits[x] =>
         ~(submits[x] >= 1 /\ clock - submittedAt[x] < CACHE_TTL)]_vars

\* ======================================================================
\* The Segmenter: segmentContent(text, context) of agent/segmenter.js.
\* A text is a sequence of characters; the judgment is the answer of the
\* chat-completion call.
\* ======================================================================
MaxJudgedSegments == 2    \* most segments a judgment lists in the model

MinSegmentLength == 50
LeadingSpan == 50
MaxWindowWords == 400
FallbackChars == 500
NapkinLimit == 2000

\* ---- strings
\* text.substring(0, n)
Prefix(t, n) == SubSeq(t, 1, Min(n, Len(t)))

\* text.trim()
trim(t) ==
  IF \A i \in DOMAIN t : t[i] = " " THEN <<>>
  ELSE LET lo == CHOOSE i \in DOMAIN t :
                   t[i] # " " /\ \A j \in 1..(i - 1) : t[j] = " "
           hi == CHOOSE i \in DOMAIN t :
                   t[i] # " " /\ \A j \in (i + 1)..Len(t) : t[j] = " "
       IN  SubSeq(t, lo, hi)

UpperCase == [c \in {"a", "b", "c", "x"} |->
                IF c = "a" THEN "A" ELSE IF c = "b" THEN "B"
                ELSE IF c = "c" THEN "C" ELSE "X"]

\* text.toLowerCase()
toLowerCase(t) ==
  [i \in DOMAIN t |->
     IF \E c \in DOMAIN UpperCase : UpperCase[c] = t[i]
     THEN CHOOSE c \in DOMAIN UpperCase : UpperCase[c] = t[i]
     ELSE t[i]]

\* haystack.includes(needle)
includes(h, n) ==
  \/ n = <<>>
  \/ \E i \in 1..(Len(h) - Len(n) + 1) :
       /\ h[i] = n[1]
       /\ \A k \in 2..Len(n) : h[i + k - 1] = n[k]

\* the maximal runs of non-space characters of t[lo..hi], in order
RECURSIVE Runs(_, _, _)
Runs(t, lo, hi) ==
  IF lo > hi THEN <<>>
  ELSE LET S == {j \in lo..hi : t[j] = " "}
           mid == (lo + hi) \div 2
       IN  IF S = {} THEN <<SubSeq(t, lo, hi)>>
           ELSE LET L == {j \in S : j <= mid}
                    m == IF L # {}
                         THEN CHOOSE j \in L : \A k \in L : k <= j
                         ELSE CHOOSE j \in S : \A k \in S : k >= j
                IN  Runs(t, lo, m - 1) \o Runs(t, m + 1, hi)

\* text.split(/\s+/): a text that starts or ends with white space yields an
\* empty string at that end
split(t) ==
  (IF t # <<>> /\ t[1] = " " THEN <<(<<>>)>> ELSE <<>>)
    \o Runs(t, 1, Len(t))
    \o (IF t # <<>> /\ t[Len(t)] = " " THEN <<(<<>>)>> ELSE <<>>)

\* text.split(/\s+/).filter(w => w.length > 0).length
WordCount(t) ==
  Cardinality({i \in DOMAIN t : t[i] # " " /\ (i = 1 \/ t[i - 1] = " ")})

\* words.slice(lo - 1, hi).join(' ')
RECURSIVE join(_, _, _)
join(ws, lo, hi) ==
  IF lo > hi THEN <<>>
  ELSE IF lo = hi THEN ws[lo]
  ELSE LET m == (lo + hi) \div 2
       IN  join(ws, lo, m) \o <<" ">> \o join(ws, m + 1, hi)

\* ---- inputs
\* n words of five letters, separated by single spaces
Prose(n) ==
  [i \in 1..(6 * n - 1) |->
     IF i % 6 = 0 THEN " "
     ELSE IF (i \div 6) % 3 = 0 THEN "a"
     ELSE IF (i \div 6) % 3 = 1 THEN "b" ELSE "c"]

SegTexts == {"blank", "short", "medium", "long"}

TextOf(id) ==
  IF id = "blank" THEN <<" ", " ">>
  ELSE IF id = "short" THEN Prose(3)
  ELSE IF id = "medium" THEN Prose(120)
  ELSE Prose(450)

\* what a judged segment carries as its text: nothing, a quotation of the
\* input, a short quotation, a quotation of the input's first characters
\* followed by words of the model's own, or only words of its own
JudgedTexts == {"omitted", "quote", "shortQuote", "quoteThenInvented",
                "invented"}

InventedWords(n) == [i \in 1..n |-> "x"]

JudgedText(text, kind) ==
  IF kind = "omitted" THEN <<>>
  ELSE IF kind = "quote" THEN SubSeq(text, Min(7, Len(text)), Min(66, Len(text)))
  ELSE IF kind = "shortQuote" THEN Prefix(text, 20)
  ELSE IF kind = "quoteThenInvented"
       THEN Prefix(text, LeadingSpan) \o InventedWords(30)
  ELSE InventedWords(60)

\* answers of the chat-completion call: the call fails, the content is not
\* JSON, the "segments" member is not an array, or a list of segments
Judgments ==
  {[kind |-> k, segments |-> <<>>] :
     k \in {"callFails", "notJson", "notArray"}}
  \cup {[kind |-> "parsed", segments |-> s] :
          s \in UNION {[1..n -> JudgedTexts] : n \in 0..MaxJudgedSegments}}

\* ---- segmentContent
\* segmenter.js lines 141-189: one enriched segment
\* lines 163-166: the window of the input's words for segment `index`
WordWindow(text, n, index) ==
  LET words == split(text)
      segmentSize == Min(MaxWindowWords, Len(words) \div n)
      startIdx == index * segmentSize
  IN  join(words, Min(startIdx, Len(words)) + 1,
           Min(startIdx + segmentSize, Len(words)))

Enrich(text, segments, index) ==
  LET judged == JudgedText(text, segments[index + 1])
      \* lines 147-158
      verified ==
        IF judged # <<>> /\ Len(trim(judged)) >= MinSegmentLength
             /\ ~includes(toLowerCase(text),
                          Prefix(toLowerCase(judged), LeadingSpan))
        THEN <<>> ELSE judged
      \* lines 161-168
      sliced ==
        IF verified = <<>> \/ Len(trim(verified)) < MinSegmentLength
        THEN WordWindow(text, Len(segments), index)
        ELSE verified
      \* lines 171-174
      segmentText ==
        IF sliced = <<>> \/ Len(trim(sliced)) < MinSegmentLength
        THEN Prefix(text, Min(FallbackChars, Len(text)))
        ELSE sliced
      segWordCount == WordCount(segmentText)
  IN  [text |-> trim(segmentText),
       priority |-> IF index < 2 THEN 1 ELSE 2,
       wordCount |-> segWordCount]

\* lines 196-208
SingleSegment(text) ==
  <<[text |-> Prefix(text, NapkinLimit),
     priority |-> 1,
     wordCount |-> Min(WordCount(text), NapkinLimit)]>>

\* lines 76-78, 122-138 and 211-214: the cases in which the function throws
SegmentContentFails(text, j) ==
  \/ trim(text) = <<>>
  \/ j.kind \in {"callFails", "notJson", "notArray"}

\* lines 141-210
segmentContent(text, j) ==
  IF j.segments = <<>> THEN SingleSegment(text)
  ELSE [i \in DOMAIN j.segments |-> Enrich(text, j.segments, i - 1)]

SegInit ==
  /\ NotSegIdle
  /\ spc = "called"
  /\ segIn \in [text : SegTexts, judgment : Judgments]
  /\ segOut = <<>>

SegmentContentThrows ==
  /\ spc = "called"
  /\ SegmentContentFails(TextOf(segIn.text), segIn.judgment)
  /\ spc' = "threw"
  /\ UNCHANGED <<segIn, segOut>>
  /\ UNCHANGED NotSeg

SegmentContentReturns ==
  /\ spc = "called"
  /\ ~SegmentContentFails(TextOf(segIn.text), segIn.judgment)
  /\ spc' = "returned"
  /\ segOut' = segmentContent(TextOf(segIn.text), segIn.judgment)
  /\ UNCHANGED segIn
  /\ UNCHANGED NotSeg

SegNext == SegmentContentThrows \/ SegmentContentReturns

SegSpec == SegInit /\ [][SegNext]_vars

\* ------------------------------------------------------------------ C22
\* the text of returned segment `index` (of n) comes from the input: it
\* occurs in the input, or it is the word window, the 500-character prefix
\* or the 2000-character prefix the code cuts out of the input
DerivedFromInput(text, n, index, segmentText) ==
  \/ includes(text, segmentText)
  \/ segmentText = trim(WordWindow(text, n, index))
  \/ segmentText = trim(Prefix(text, FallbackChars))
  \/ segmentText = Prefix(text, NapkinLimit)

\* C22: every segment segmentContent returns has a text derived from the
\* input text only, whatever the judgment answered.
C22_SegmentsDerivedFromInput ==
  spc = "returned" =>
    \A i \in DOMAIN segOut :
      DerivedFromInput(TextOf(segIn.text), Len(segOut), i - 1, segOut[i].text)

\* ------------------------------------------------------------------ C30
\* C30: for a text that is not empty segmentContent always returns at least
\* one segment; when the judgment yields no segment (the call fails, its
\* content cannot be used, or it lists none) the result is exactly one
\* segment holding the first 2000 characters of the input.
C30_NeverEmptySegmentation ==
  (spc \in {"returned", "threw"} /\ trim(TextOf(segIn.text)) # <<>>) =>
    /\ spc = "returned"
    /\ Len(segOut) >= 1
    /\ segIn.judgment.segments = <<>> =>
         /\ Len(segOut) = 1
         /\ segOut[1].text = Prefix(TextOf(segIn.text), NapkinLimit)

\* ======================================================================
\* The Evaluator: evaluateContent(text, context).  The repository holds two
\* versions: agent/evaluator.js, which executor.js line 11 requires, and the
\* v2.1 text that follows processSection in agent/decider.js (lines
\* 130-300).  Confidences are in hundredths.
\* ======================================================================
ShortContentWords == 30
ShortContentWordsV21 == 15
QuickApproveWords == 60
SubstantialWords == 80
TrustThreshold == 75

\* word counts of the texts that are evaluated
EvalWordCounts == {0, 10, 20, 40, 70, 100}

\* answers of the chat-completion call: the call fails, the content is no
\* JSON even after the clean-up, or an object; "unquotedKeys" is an object
\* that parses only after the second clean-up of evaluator.js lines 121-124.
\* worthy is the member as sent (true, false or left out), confidence the
\* number sent, or nothing
EvalJudgments ==
  {[kind |-> k, worthy |-> "absent", confidence |-> <<>>] :
     k \in {"callFails", "notJson"}}
  \cup [kind : {"json", "unquotedKeys"},
        worthy : {"true", "false", "absent"},
        confidence : {<<>>, <<50>>, <<74>>, <<75>>, <<90>>}]

Verdict(w, r, c, p) ==
  [worthy |-> w, reason |-> r, confidence |-> c, visualizationPotential |-> p]

\* evaluator.js lines 137-156 (decider.js lines 266-269): the validated
\* members of the parsed object
Validated(j) ==
  LET worthy == j.worthy = "true"
  IN  Verdict(worthy,
              IF worthy THEN "appears visualizable" ELSE "not suitable",
              IF j.confidence # <<>> THEN j.confidence[1]
              ELSE IF worthy THEN 70 ELSE 60,
              IF worthy THEN "medium" ELSE "low")

\* agent/evaluator.js lines 56-167
evaluateContent(text, j) ==
  IF text = <<>> \/ trim(text) = <<>>
  THEN Verdict(FALSE, "empty", 100, "none")
  ELSE IF WordCount(text) < ShortContentWords
  THEN Verdict(FALSE, "too short", 90, "none")
  ELSE IF j.kind = "callFails"
  THEN Verdict(FALSE, "evaluation error", 50, "unknown")
  ELSE IF j.kind = "notJson"
  THEN Verdict(FALSE, "unable to evaluate", 50, "unknown")
  ELSE Validated(j)

\* decider.js lines 271-280
Override(v, wordCount) ==
  IF ~v.worthy /\ wordCount >= SubstantialWords
       /\ v.confidence < TrustThreshold
  THEN Verdict(TRUE, "substantial", 60, "medium")
  ELSE v

\* agent/decider.js lines 183-296 (v2.1); `structured` tells whether one of
\* the three patterns of lines 208-210 matches the text
evaluateContentV21(text, structured, j) ==
  IF text = <<>> \/ trim(text) = <<>>
  THEN Verdict(FALSE, "empty", 100, "none")
  ELSE IF WordCount(text) < ShortContentWordsV21
  THEN Verdict(FALSE, "too short", 90, "none")
  ELSE IF WordCount(text) >= QuickApproveWords /\ structured
  THEN Verdict(TRUE, "sufficient structure", 80, "medium")
  ELSE IF j.kind = "callFails"
  THEN Verdict(TRUE, "evaluation error", 50, "medium")
  ELSE IF j.kind \in {"notJson", "unquotedKeys"}
  THEN Verdict(TRUE, "could not evaluate", 50, "medium")
  ELSE Override(Validated(j), WordCount(text))

EvalInit ==
  /\ NotEvalIdle
  /\ epc = "called"
  /\ evalIn \in [words : EvalWordCounts, structured : BOOLEAN,
                 judgment : EvalJudgments]
  /\ evalOut = <<>>

\* the evaluator of agent/evaluator.js answers
EvaluateContentReturns ==
  /\ epc = "called"
  /\ epc' = "returned"
  /\ evalOut' = evaluateContent(Prose(evalIn.words), evalIn.judgment)
  /\ UNCHANGED evalIn
  /\ UNCHANGED NotEval

\* the v2.1 evaluator answers
EvaluateContentV21Returns ==
  /\ epc = "called"
  /\ epc' = "returnedV21"
  /\ evalOut' = evaluateContentV21(Prose(evalIn.words), evalIn.structured,
                                   evalIn.judgment)
  /\ UNCHANGED evalIn
  /\ UNCHANGED NotEval

EvalNext == EvaluateContentReturns \/ EvaluateContentV21Returns

EvalSpec == EvalInit /\ [][EvalNext]_vars

\* ------------------------------------------------------------------ C23
\* C23: a text of at least 80 words is never returned as unworthy when the
\* confidence the judgment reports is below 0.75.
C23_SubstantialNeverRejected ==
  (/\ epc \in {"returned", "returnedV21"}
   /\ evalIn.words >= SubstantialWords
   /\ evalIn.judgment.kind \in {"json", "unquotedKeys"}
   /\ evalIn.judgment.confidence # <<>>
   /\ evalIn.judgment.confidence[1] < TrustThreshold) =>
    evalOut.worthy

\* ------------------------------------------------------------------ C24
\* C24: when the judgment call fails or its content cannot be parsed, a text
\* that reached the call is returned as worthy with confidence 0.5.
C24_FailureDefaultsToWorthy ==
  (/\ epc \in {"returned", "returnedV21"}
   /\ evalIn.words >= ShortContentWords
   /\ evalIn.judgment.kind \in {"callFails", "notJson"}) =>
    /\ evalOut.worthy
    /\ evalOut.confidence = 50

\* ======================================================================
\* The Planner: createPlan(paperData), and the part of the /analyze handler
\* that reads its result (routes/analyze.js lines 32-77).  The handler
\* accepts the result of two planners: the v2.1 planner, which returns
\* .sections (src/unnamed/part_006), and the planner before it, which
\* returns .plan (src/unnamed/part_005).
\* ======================================================================
MaxJudgedSections == 9    \* most sections a planning judgment lists

PlanCap == 8
FallbackSections == 3
FallbackMinWords == 50
SubstantialSectionWords == 120
SubstantialSections == 3

\* paperData.sections: the word count of each section; the id of a section
\* is its position
PlanPapers == {<<>>, <<40>>, <<130, 125>>, <<60, 200, 40, 130, 150>>}

Sections(paper) == [i \in DOMAIN paper |-> [id |-> i, wordCount |-> paper[i]]]

\* answers of the planning call: the call fails (with a quota message or
\* another one), the content is no JSON even after the clean-up, or an
\* object.  has is the hasVisualizableContent member as sent, n the number
\* of listed sections, firstPriority the priority member of the first one
\* (0: left out) and secondSkipped the skip member of the second one
PlanJudgments ==
  {[kind |-> k, has |-> "absent", n |-> 0, firstPriority |-> 0,
    secondSkipped |-> FALSE] : k \in {"callFails", "quotaError", "notJson"}}
  \cup [kind : {"json"}, has : {"true", "false", "absent"},
        n : 0..MaxJudgedSections, firstPriority : 0..3,
        secondSkipped : BOOLEAN]

\* parsed.sections
JudgedItems(j) ==
  [i \in 1..j.n |-> [sectionId |-> i,
                     priority |-> IF i = 1 THEN j.firstPriority ELSE 0,
                     skip |-> (i = 2 /\ j.secondSkipped)]]

\* `s.priority || 2` (part_006 line 162, part_005 line 208)
PriorityOr2(p) == IF p = 0 THEN 2 ELSE p

PlanItem(id, p, skip) == [sectionId |-> id, priority |-> p, skip |-> skip]

PlanResult(has, items) == [hasVisualizableContent |-> has, sections |-> items]

\* part_006 lines 201-223
createFallbackPlan(paper) ==
  LET kept == Prefix(SelectSeq(Sections(paper),
                               LAMBDA s : s.wordCount > FallbackMinWords),
                     FallbackSections)
      validSections == [i \in DOMAIN kept |-> PlanItem(kept[i].id, 1, FALSE)]
  IN  PlanResult(Len(validSections) > 0, validSections)

\* part_006 lines 156-167: .slice(0, 8)
Cap(items) == Prefix(items, PlanCap)

\* part_006 lines 112-181
createPlanV21(paper, j) ==
  IF j.kind # "json" THEN createFallbackPlan(paper)
  ELSE LET kept == SelectSeq(JudgedItems(j), LAMBDA s : ~s.skip)
           validSections ==
             Cap([i \in DOMAIN kept |->
                    PlanItem(kept[i].sectionId, PriorityOr2(kept[i].priority),
                             FALSE)])
       IN  PlanResult(j.has = "true" /\ Len(validSections) > 0, validSections)

\* .sort((a, b) => b.wordCount - a.wordCount): stable
RECURSIVE SortByWordCount(_)
SortByWordCount(secs) ==
  IF secs = <<>> THEN <<>>
  ELSE LET i == CHOOSE k \in DOMAIN secs :
                  /\ \A m \in DOMAIN secs : secs[k].wordCount >= secs[m].wordCount
                  /\ \A m \in 1..(k - 1) : secs[m].wordCount < secs[k].wordCount
       IN  <<secs[i]>> \o SortByWordCount(SubSeq(secs, 1, i - 1)
                                            \o SubSeq(secs, i + 1, Len(secs)))

\* part_005 lines 107-152 and 230-233: the planner before v2.1 throws
CreatePlanOldFails(j) == j.kind # "json"

\* part_005 lines 155-229
createPlanOld(paper, j) ==
  LET substantialSections ==
        Prefix(SortByWordCount(
                 SelectSeq(Sections(paper),
                           LAMBDA s : s.wordCount >= SubstantialSectionWords)),
               SubstantialSections)
      useFallback == j.has = "false" /\ Len(paper) > 0
                       /\ Len(substantialSections) > 0
      planItems == IF useFallback
              THEN [i \in DOMAIN substantialSections |->
                      PlanItem(substantialSections[i].id,
                               IF i = 1 THEN 1 ELSE 2, FALSE)]
              ELSE JudgedItems(j)
      enrichedPlan == [i \in DOMAIN planItems |->
                         PlanItem(planItems[i].sectionId,
                                  PriorityOr2(planItems[i].priority),
                                  planItems[i].skip)]
  IN  PlanResult(j.has # "false" \/ useFallback, enrichedPlan)

PlanInit ==
  /\ NotPlanIdle
  /\ plpc = "called"
  /\ planIn \in [paper : PlanPapers, judgment : PlanJudgments]
  /\ planResult = <<>>
  /\ planEvents = <<>>

\* analyze.js line 37 with the v2.1 planner
CreatePlanV21Returns ==
  /\ plpc = "called"
  /\ plpc' = "returnedV21"
  /\ planResult' = createPlanV21(planIn.paper, planIn.judgment)
  /\ UNCHANGED <<planIn, planEvents>>
  /\ UNCHANGED NotPlan

\* analyze.js line 37 with the planner before v2.1
CreatePlanOldReturns ==
  /\ plpc = "called"
  /\ ~CreatePlanOldFails(planIn.judgment)
  /\ plpc' = "returnedOld"
  /\ planResult' = createPlanOld(planIn.paper, planIn.judgment)
  /\ UNCHANGED <<planIn, planEvents>>
  /\ UNCHANGED NotPlan

\* analyze.js lines 38-45 and 91-95: createPlan threw; one error event,
\* whatever the message
CreatePlanOldThrows ==
  /\ plpc = "called"
  /\ CreatePlanOldFails(planIn.judgment)
  /\ plpc' = "threw"
  /\ planEvents' = <<"error">>
  /\ UNCHANGED <<planIn, planResult>>
  /\ UNCHANGED NotPlan

\* analyze.js lines 54-77: no_content and complete, or the plan event
\* followed by execute(plan, ...)
HandlerReadsPlan ==
  /\ plpc \in {"returnedV21", "returnedOld"}
  /\ plpc' = IF plpc = "returnedV21" THEN "readV21" ELSE "readOld"
  /\ planEvents' =
       IF ~planResult.hasVisualizableContent \/ Len(planResult.sections) = 0
       THEN <<"no_content", "complete">>
       ELSE <<"plan">>
  /\ UNCHANGED <<planIn, planResult>>
  /\ UNCHANGED NotPlan

PlanNext ==
  \/ CreatePlanV21Returns
  \/ CreatePlanOldReturns
  \/ CreatePlanOldThrows
  \/ HandlerReadsPlan

PlanSpec == PlanInit /\ [][PlanNext]_vars

\* createPlan has returned a result
PlanReturned == plpc \in {"returnedV21", "returnedOld", "readV21", "readOld"}

\* the handler is done with the result of createPlan
PlanRead == plpc \in {"threw", "readV21", "readOld"}

\* analyze.js line 77: the plan handed to execute
Handed == IF planEvents = <<"plan">> THEN planResult.sections ELSE <<>>

\* executor.js lines 63, 77 and 78
Priority1(items) == SelectSeq(items, LAMBDA s : ~s.skip /\ s.priority = 1)
Priority2(items) == SelectSeq(items, LAMBDA s : ~s.skip /\ s.priority = 2)

\* ------------------------------------------------------------------ C25
\* C25: when the planning call fails, the handler sends exactly one error
\* event and nothing else: no plan, no no_content, no complete.
C25_JudgmentErrorIsFatal ==
  (PlanRead /\ planIn.judgment.kind \in {"callFails", "quotaError"}) =>
    /\ plpc = "threw"
    /\ planEvents = <<"error">>

\* ------------------------------------------------------------------ C27
\* C27: the plan createPlan returns has at most 8 admitted (not skipped)
\* items, however many sections the judgment lists.
C27_AtMostEightAdmitted ==
  PlanReturned =>
    Len(SelectSeq(planResult.sections, LAMBDA s : ~s.skip)) <= PlanCap

\* ------------------------------------------------------------------ C28
\* the ids of the (at most 3) sections with the highest word count among
\* those above the minimum
LargestSections(paper) ==
  LET top == Prefix(SortByWordCount(
                      SelectSeq(Sections(paper),
                                LAMBDA s : s.wordCount > FallbackMinWords)),
                    FallbackSections)
  IN  [i \in DOMAIN top |-> top[i].id]

\* C28: when the judgment cannot be parsed, createPlan returns a plan that
\* admits the (at most 3) largest sections above the minimum word count, the
\* largest of them with priority 1.
C28_FallbackTakesLargest ==
  (plpc # "called" /\ planIn.judgment.kind = "notJson") =>
    /\ PlanReturned
    /\ Len(planResult.sections) <= FallbackSections
    /\ {planResult.sections[i].sectionId : i \in DOMAIN planResult.sections}
         = {LargestSections(planIn.paper)[i] :
              i \in DOMAIN LargestSections(planIn.paper)}
    /\ \A i \in DOMAIN planResult.sections :
         (planResult.sections[i].sectionId = LargestSections(planIn.paper)[1])
           => (~planResult.sections[i].skip
                 /\ planResult.sections[i].priority = 1)

\* ------------------------------------------------------------------ C29
\* C29: every admitted item of the plan handed to execute has priority 1 or
\* 2, so it is in one of the two partitions execute processes.
C29_PriorityOneOrTwo ==
  /\ \A i \in DOMAIN Handed :
       ~Handed[i].skip => Handed[i].priority \in {1, 2}
  /\ Len(Priority1(Handed)) + Len(Priority2(Handed))
       = Len(SelectSeq(Handed, LAMBDA s : ~s.skip))

\* ======================================================================
\* The overall timeout of a run.  The only one is the caller's: the
\* extension opens the /analyze request with AbortSignal.timeout(300000)
\* (extension/background.js line 159) and, when it fires, reports
\* 'Request timed out' to the page (lines 221-238).  The handler and the
\* executor take no timeout and do not watch the connection (analyze.js
\* lines 71-95); pollUntilComplete is called without options (executor.js
\* line 219) and stops on its own 60 s limit only.
\* ======================================================================
overallTimeout == 300000

\* time the run has already taken when a poll begins
RunOffsets == {0, 250000, 295000}

TimeoutInit ==
  /\ MainIdle
  /\ PollStart
  /\ GenIdle /\ SegIdle /\ EvalIdle /\ PlanIdle
  /\ LimiterIdle
  /\ CacheIdle
  /\ ClientIdle
  /\ runStart \in RunOffsets
  /\ aborted = FALSE

\* background.js lines 159 and 221-238: the caller's timeout fires; nothing
\* of the server changes
OverallTimeoutFires ==
  /\ ppc # "off"
  /\ ~aborted
  /\ runStart + pnow >= overallTimeout
  /\ aborted' = TRUE
  /\ UNCHANGED runStart
  /\ UNCHANGED NotCaller

TimeoutNext == PollNext \/ OverallTimeoutFires

TimeoutSpec == TimeoutInit /\ [][TimeoutNext]_vars

\* ------------------------------------------------------------------ C26
\* C26: once the caller's overall timeout has fired, the poll in progress is
\* abandoned: no further status request is issued.
C26_TimeoutAbandonsPolls ==
  [][aborted => ~(ppc = "check" /\ ppc' = "status")]_vars


\* ===================================================== the generation client
\* src/server/napkin/client.js, createVisualRequest (lines 43-154).  One call
\* is followed from its arguments to the request it sends and to its result.
\* Texts are sequences of one-character strings, as for the segmenter.

\* client.js line 49: the service's length limit
ContentLimit == 2000

Spaces(n) == [i \in 1..n |-> " "]

\* text arguments: leading blanks, prose, trailing blanks
ClientLeads == {0, 2, 2001}
ClientWords == {0, 1, 334, 450}
ClientTrails == {0, 2}

ClientText(lead, words, trail) == Spaces(lead) \o Prose(words) \o Spaces(trail)

\* options.outputFormats: absent, an empty array, or an array of formats
OutputFormatOptions == {<<>>, << <<>> >>, << <<"png", "svg">> >>}

ClientRequests ==
  { [text |-> ClientText(l, w, t), token |-> k, outputFormats |-> f] :
      l \in ClientLeads, w \in ClientWords, t \in ClientTrails,
      k \in BOOLEAN, f \in OutputFormatOptions }

\* what the service answers to POST /visual
VisualAnswers == {"ok", "noRequestId", "invalidJson", "429", "401", "402",
                  "500", "400", "networkError"}

\* line 49, without the cut
TruncatedNone(text) == text

\* line 49: text.length > 2000 ? text.substring(0, 2000) : text
Truncated(text) ==
  IF Len(text) > ContentLimit THEN Prefix(text, ContentLimit) ELSE text

\* lines 56-57: options.outputFormats || ['svg'], then its first element;
\* <<>> stands for undefined
Format(req) ==
  LET outputFormats ==
        IF req.outputFormats = <<>> THEN <<"svg">> ELSE req.outputFormats[1]
  IN  IF outputFormats = <<>> THEN <<>> ELSE <<outputFormats[1]>>

\* lines 44-61: the error thrown before anything is sent, "none" if none is
ClientRejection(req) ==
  IF ~req.token THEN "AuthError"
  ELSE IF Truncated(req.text) = <<>> \/ trim(Truncated(req.text)) = <<>>
    THEN "Content text cannot be empty"
  ELSE IF Format(req) = <<>> THEN "Format is required"
  ELSE "none"

\* lines 63-66
Body(req) ==
  [content |-> trim(Truncated(req.text)), format |-> Format(req)[1]]

\* lines 101-153: the outcome for each answer of the service
VisualOutcome(answer) ==
  CASE answer = "ok"  -> "requestId"
    [] answer = "429" -> "RateLimitError"
    [] answer = "401" -> "AuthError"
    [] answer = "500" -> "NapkinServerError"
    [] OTHER          -> "Failed to create visual request"

ClientInit ==
  /\ NotClientIdle
  /\ cpc = "called"
  /\ creq \in ClientRequests
  /\ cbody = <<>>
  /\ cresult = "none"

\* lines 44-61: one of the three checks throws
CreateVisualRequestRejects ==
  /\ cpc = "called"
  /\ ClientRejection(creq) # "none"
  /\ cresult' = ClientRejection(creq)
  /\ cpc' = "thrown"
  /\ UNCHANGED <<creq, cbody>>
  /\ UNCHANGED NotClient

\* lines 63-99: the body is built and posted
CreateVisualRequestSends ==
  /\ cpc = "called"
  /\ ClientRejection(creq) = "none"
  /\ cbody' = <<Body(creq)>>
  /\ cpc' = "sent"
  /\ UNCHANGED <<creq, cresult>>
  /\ UNCHANGED NotClient

\* lines 101-153
VisualResponds ==
  /\ cpc = "sent"
  /\ \E answer \in VisualAnswers :
       /\ cresult' = VisualOutcome(answer)
       /\ cpc' = IF answer = "ok" THEN "returned" ELSE "thrown"
  /\ UNCHANGED <<creq, cbody>>
  /\ UNCHANGED NotClient

ClientNext ==
  \/ CreateVisualRequestRejects
  \/ CreateVisualRequestSends
  \/ VisualResponds

ClientSpec == ClientInit /\ [][ClientNext]_vars

\* C31: createVisualRequest rejects empty or whitespace-only text with an error
\* before any request is sent, and the content of every request it sends is
\* non-empty and at most 2000 characters long.
C31_ContentChecked ==
  /\ (cpc \notin {"off", "called"} /\ trim(creq.text) = <<>>)
       => (cpc = "thrown" /\ cbody = <<>> /\ cresult # "none")
  /\ \A i \in DOMAIN cbody :
       /\ Len(cbody[i].content) \in 1..ContentLimit
       /\ \E j \in DOMAIN cbody[i].content : cbody[i].content[j] # " "

\* a text longer than the limit was sent, cut and trimmed
C31_Witness_LongTextSent ==
  /\ cpc = "returned"
  /\ Len(creq.text) > ContentLimit
  /\ Len(cbody) = 1
  /\ Len(cbody[1].content) < ContentLimit


\* ====================================================== the poller, again
\* the ways pollUntilComplete ends (part_004 lines 44, 55 and 59)
PollEnded == {"returned", "NapkinFailedError", "TimeoutError"}

\* getVisualStatus settles (its fetch resolves or rejects) and the timer of
\* sleep fires: a step of the poller that can be taken is taken
PollLiveSpec == PollInit /\ [][PollNext]_vars /\ WF_vars(PollNext)

\* C32: pollUntilComplete always terminates: it returns at the first poll that
\* observes completed, raises the failed error at the first poll that observes
\* failed, and otherwise raises the timeout error once the timeout has elapsed;
\* no status request is issued after a terminal status was observed or after
\* the timeout has elapsed.
C32_PollTerminates ==
  /\ <>(ppc \in PollEnded)
  /\ [](status = "completed" <=> ppc = "returned")
  /\ [](status = "failed" <=> ppc = "NapkinFailedError")
  /\ [](ppc = "TimeoutError" => pnow >= timeout)
  /\ [][ppc' = "status" =>
          (pnow < timeout /\ status \notin {"completed", "failed"})]_vars
  /\ [][(ppc \in PollEnded) => ppc' = ppc]_vars

\* the timeout ended a poll that had only seen a request in progress
C32_Witness_TimedOut ==
  ppc = "TimeoutError" /\ status = "processing" /\ pollAttempt > 1

\* C33: the wait between successive polls starts at initialInterval (2000 ms),
\* is multiplied by 1.5 after each non-terminal poll or polling error, never
\* decreases and never exceeds maxInterval (10000 ms).
C33_BackoffBounded ==
  /\ [](ppc # "off" => currentInterval \in initialInterval..maxInterval)
  /\ []((ppc = "sleep" /\ pollAttempt = 1) =>
          currentInterval = initialInterval)
  /\ [][currentInterval' >= currentInterval]_vars
  /\ [][ppc = "sleep" =>
          /\ pnow' - pnow = currentInterval
          /\ \/ 2 * currentInterval' = 3 * currentInterval
             \/ currentInterval' = maxInterval /\
                  3 * currentInterval >= 2 * maxInterval]_vars
  /\ [][(ppc = "status" /\ ppc' \notin PollEnded) => ppc' = "sleep"]_vars

\* the wait has reached the cap after a polling error
C33_Witness_AtCap ==
  ppc = "sleep" /\ currentInterval = maxInterval /\ pollErr


\* ======================================================= the artifact caches
\* Three caches hold artifacts: the text-keyed Cache of part_000 (lines
\* 166-221), the text-keyed Map of the background worker (background.js lines
\* 9-26, 41-48 and 90-98) and the URL-keyed Map of the downloader
\* (downloader.js lines 9-44).  A Map is a sequence of entries in insertion
\* order.  The entries of the two text-keyed Maps carry, besides the key and
\* the artifact, the time at which they were stored; the Maps themselves hold
\* no time.  A text is the sequence of its character codes.

\* operations of one behaviour
MaxCacheOps == 3

\* part_000 line 167
maxSize == 100
\* background.js line 11
MAX_CACHE_SIZE == 100

\* 2^16: a 32-bit integer is kept as two 16-bit halves <<high, low>>
Half == 65536

\* part_000 lines 181-182 and background.js lines 22-23:
\* hash = ((hash << 5) - hash) + char; hash = hash & hash, in 32 bits
HashStep(h, char) ==
  LET low  == 31 * h[2] + char
      high == 31 * h[1] + low \div Half
  IN  <<high % Half, low % Half>>

\* lines 178-183, the loop over the characters
RECURSIVE HashLoop(_)
HashLoop(text) ==
  IF text = <<>> THEN <<0, 0>>
  ELSE HashStep(HashLoop(SubSeq(text, 1, Len(text) - 1)), text[Len(text)])

\* the absolute value of a 32-bit two's complement integer
Magnitude(h) ==
  IF h[1] < Half \div 2 THEN h
  ELSE <<(Half - 1 - h[1] + (IF h[2] = 0 THEN 1 ELSE 0)) % Half,
         (Half - h[2]) % Half>>

\* the digits of a number in base 36, most significant first
RECURSIVE Digits36(_)
Digits36(m) ==
  IF m = <<0, 0>> THEN <<>>
  ELSE LET rest == (m[1] % 36) * Half + m[2]
       IN  Append(Digits36(<<m[1] \div 36, rest \div 36>>), rest % 36)

\* Number.prototype.toString(36); the digit 36 stands for the minus sign
toString36(h) ==
  IF h = <<0, 0>> THEN <<0>>
  ELSE (IF h[1] >= Half \div 2 THEN <<36>> ELSE <<>>) \o Digits36(Magnitude(h))

\* part_000 lines 177-185 (Cache.hash) and background.js lines 18-26
hashText(text) == toString36(HashLoop(text))

\* the artifact the server generates for a text, and the one behind a URL
SvgFor(text) == [of |-> text]

\* texts of one character with distinct codes: n of them fill a Map
FillText(n) == <<n>>

\* how many entries the caches hold when the behaviour starts
CacheFills == {0, maxSize - 1, maxSize}

\* texts the operations are called with: the one stored first, new ones, two
\* two-letter texts ("Aa" and "BB") and a longer one
CacheTexts == {FillText(1), FillText(maxSize + 1), FillText(maxSize + 2),
               <<65, 97>>, <<66, 66>>,
               <<112, 97, 112, 101, 114, 108, 101, 110, 115>>}

\* file URLs the downloader is called with
CacheUrls == {1, maxSize + 1, maxSize + 2}

MapHas(c, key) == \E i \in DOMAIN c : c[i].key = key

\* Map.get: the entry, or the empty sequence for undefined
MapGet(c, key) ==
  IF MapHas(c, key) THEN <<c[CHOOSE i \in DOMAIN c : c[i].key = key]>>
  ELSE <<>>

\* Map.set: a key the Map already holds keeps its position
MapSet(c, key, svg, now) ==
  LET e == [key |-> key, svg |-> svg, storedAt |-> now]
  IN  IF MapHas(c, key)
      THEN [i \in DOMAIN c |-> IF c[i].key = key THEN e ELSE c[i]]
      ELSE Append(c, e)

\* cache.delete(cache.keys().next().value)
MapDeleteFirst(c) == IF c = <<>> THEN c ELSE Tail(c)

\* part_000 lines 193-196: Cache.get(text)
PageCacheGet(c, text) == MapGet(c, hashText(text))

\* part_000 lines 203-213: Cache.set(text, svg)
PageCacheSet(c, text, svg, now) ==
  LET key == hashText(text)
      kept == IF Len(c) >= maxSize /\ ~MapHas(c, key)
              THEN MapDeleteFirst(c) ELSE c
  IN  MapSet(kept, key, svg, now)

\* background.js lines 93-97
BackgroundCacheSet(c, text, svg, now) ==
  LET kept == IF Len(c) >= MAX_CACHE_SIZE THEN MapDeleteFirst(c) ELSE c
  IN  MapSet(kept, hashText(text), svg, now)

\* a Map after n stores of distinct texts at the times 1..n
FilledMap(n) ==
  [i \in 1..n |-> [key |-> hashText(FillText(i)), svg |-> SvgFor(FillText(i)),
                   storedAt |-> i]]

\* the downloader's Map after n downloads of distinct URLs at the times 1..n
FilledUrlMap(n) ==
  [i \in 1..n |-> [url |-> i, svg |-> SvgFor(i), timestamp |-> i]]

CacheInit ==
  /\ NotCacheIdle
  /\ \E n \in CacheFills :
       /\ tcache = FilledMap(n)
       /\ bcache = FilledMap(n)
       /\ ucache = FilledUrlMap(n)
  /\ pending = [t \in CacheTexts |-> 0]
  /\ cnow = maxSize + 1
  /\ cops = 0
  /\ cgot = <<>>

\* every operation takes its turn at a later time
CacheOp ==
  /\ cops < MaxCacheOps
  /\ cops' = cops + 1

\* part_000 lines 203-213
CacheSetCalled ==
  /\ CacheOp
  /\ \E text \in CacheTexts :
       tcache' = PageCacheSet(tcache, text, SvgFor(text), cnow)
  /\ cnow' = cnow + 1
  /\ UNCHANGED <<bcache, ucache, pending, cgot>>
  /\ UNCHANGED NotCache

\* part_000 lines 193-196
CacheGetCalled ==
  /\ CacheOp
  /\ \E text \in CacheTexts :
       cgot' = IF PageCacheGet(tcache, text) = <<>> THEN <<>>
               ELSE <<[text |-> text, svg |-> PageCacheGet(tcache, text)[1].svg]>>
  /\ cnow' = cnow + 1
  /\ UNCHANGED <<tcache, bcache, ucache, pending>>
  /\ UNCHANGED NotCache

\* background.js lines 41-48: the lookup of handleGenerate; a hit is answered
\* from the Map, a miss goes to the server
HandleGenerateLooksUp ==
  /\ CacheOp
  /\ \E text \in CacheTexts :
       IF MapGet(bcache, hashText(text)) # <<>>
       THEN /\ cgot' = <<[text |-> text,
                          svg |-> MapGet(bcache, hashText(text))[1].svg]>>
            /\ UNCHANGED pending
       ELSE /\ pending' = [pending EXCEPT ![text] = @ + 1]
            /\ cgot' = <<>>
  /\ cnow' = cnow + 1
  /\ UNCHANGED <<tcache, bcache, ucache>>
  /\ UNCHANGED NotCache

\* background.js lines 84-98: the server answered with one svg
HandleGenerateStores ==
  /\ \E text \in CacheTexts :
       /\ pending[text] > 0
       /\ pending' = [pending EXCEPT ![text] = @ - 1]
       /\ bcache' = BackgroundCacheSet(bcache, text, SvgFor(text), cnow)
  /\ cnow' = cnow + 1
  /\ UNCHANGED <<tcache, ucache, cops, cgot>>
  /\ UNCHANGED NotCache

\* downloader.js lines 17-47: downloadAndServeSVG(fileUrl)
DownloadAndServe ==
  /\ CacheOp
  /\ \E u \in CacheUrls :
       ucache' = IF CacheHit(ucache, u, cnow) THEN ucache
                 ELSE CacheClean(CacheSet(ucache, u, SvgFor(u), cnow))
  /\ cnow' = cnow + 1
  /\ UNCHANGED <<tcache, bcache, pending, cgot>>
  /\ UNCHANGED NotCache

\* time passes: what the downloader holds expires
CacheTimePasses ==
  /\ CacheOp
  /\ cnow' = cnow + CACHE_TTL
  /\ UNCHANGED <<tcache, bcache, ucache, pending, cgot>>
  /\ UNCHANGED NotCache

CacheNext ==
  \/ CacheSetCalled
  \/ CacheGetCalled
  \/ HandleGenerateLooksUp
  \/ HandleGenerateStores
  \/ DownloadAndServe
  \/ CacheTimePasses

CacheSpec == CacheInit /\ [][CacheNext]_vars

\* the keys a step removes from a Map, and whether it adds one
Evicted(c, d) == {e \in {c[i] : i \in DOMAIN c} : ~MapHas(d, e.key)}
NewKey(c, d) == \E i \in DOMAIN d : ~MapHas(c, d[i].key)
OldestStored(c) ==
  {e \in {c[i] : i \in DOMAIN c} : \A j \in DOMAIN c : e.storedAt <= c[j].storedAt}

UrlEvicted(c, d) ==
  {e \in {c[i] : i \in DOMAIN c} : \A j \in DOMAIN d : d[j].url # e.url}
UrlNewKey(c, d) ==
  \E i \in DOMAIN d : \A j \in DOMAIN c : c[j].url # d[i].url
UrlOldestStored(c) ==
  {e \in {c[i] : i \in DOMAIN c} : \A j \in DOMAIN c : e.timestamp <= c[j].timestamp}

\* C34: after any sequence of insertions each cache holds at most 100 entries,
\* and when a new key is inserted into a full cache the entry evicted is the
\* oldest one, the one stored the longest time ago.
C34_BoundedOldestEvicted ==
  /\ [](Len(tcache) <= maxSize /\ Len(bcache) <= MAX_CACHE_SIZE
          /\ Len(ucache) <= DownloaderCacheLimit)
  /\ [][(Len(tcache) = maxSize /\ NewKey(tcache, tcache')) =>
          Evicted(tcache, tcache') = OldestStored(tcache)]_vars
  /\ [][(Len(bcache) = MAX_CACHE_SIZE /\ NewKey(bcache, bcache')) =>
          Evicted(bcache, bcache') = OldestStored(bcache)]_vars
  /\ [][(Len(ucache) = DownloaderCacheLimit /\ UrlNewKey(ucache, ucache')) =>
          UrlEvicted(ucache, ucache') = UrlOldestStored(ucache)]_vars

\* C40: a hit in a text-keyed cache returns the artifact that was stored for
\* the same text, never the one stored for a different text.
C40_HitReturnsOwnArtifact ==
  \A i \in DOMAIN cgot : cgot[i].svg = SvgFor(cgot[i].text)


\* ================================================= the downloader, again
\* what the sanitizer makes of the files the service may return
Sanitized == {sanitizeSVG(raw) : raw \in RawSvgs}

\* C35: every artifact that downloadAndServeSVG returns or stores in its cache
\* has been sanitized first, on the cache-miss path and on the cache-hit path
\* alike: raw downloaded content is never cached and never returned.
C35_ServedAndCachedSanitized ==
  /\ served # <<>> => served \in Sanitized
  /\ \A i \in DOMAIN dcache : dcache[i].svg \in Sanitized

\* url1 was downloaded with a script element in it, url2 was downloaded later,
\* and then url1 was served from the cache
C35_Witness_HitServedSanitized ==
  /\ gpc = "idle" /\ gurl = "url1" /\ served = <<"path", "rect">>
  /\ CacheGet(dcache, "url1") # <<>> /\ CacheGet(dcache, "url2") # <<>>
  /\ CacheGet(dcache, "url1")[1].svg = served
  /\ CacheGet(dcache, "url1")[1].timestamp < CacheGet(dcache, "url2")[1].timestamp

\* the entry of the url is at least CACHE_TTL old
Expired(c, u, now) ==
  CacheGet(c, u) # <<>> /\ now - CacheGet(c, u)[1].timestamp >= CACHE_TTL

\* C36: downloadAndServeSVG never serves a cache entry whose age is at least
\* CACHE_TTL (30 minutes); for such an entry the artifact is downloaded again
\* and the entry is replaced.
C36_ExpiredNeverServed ==
  /\ [][(gpc = "poll" /\ gpc' = "idle") =>
          (CacheGet(dcache, gurl') # <<>> /\ ~Expired(dcache, gurl', clock))]_vars
  /\ [][(gpc = "poll" /\ gpc' # "poll" /\ Expired(dcache, gurl', clock)) =>
          (gpc' = "download" /\ served' = served)]_vars
  /\ [][(gpc = "download" /\ gpc' = "idle") =>
          /\ CacheGet(dcache', gurl) # <<>>
          /\ CacheGet(dcache', gurl)[1].timestamp = clock
          /\ CacheGet(dcache', gurl)[1].svg = served']_vars

\* an expired entry is being downloaded again
C36_Witness_ExpiredDownloadedAgain ==
  gpc = "download" /\ Expired(dcache, gurl, clock)


\* ===================================================== the executor, again
\* C37: each processed section ends in exactly one terminal state: within one
\* run no section gets both a diagram event and a section_error event, also
\* when a rate-limit error occurs after one of its segments produced a
\* diagram.
C37_DiagramOrErrorNotBoth ==
  \A s \in Sec : ~(HasEvent(s, {"diagram"}) /\ HasEvent(s, {"section_error"}))

\* C38: under every interleaving of the section tasks of one run the number
\* of diagram events never exceeds maxArtifacts + maxConcurrency - 1.
\* The quota is overshot only by generation calls that were in flight in the
\* other limiter slot when the counter reached maxArtifacts: no generation
\* call starts once the counter is there.
C38_OvershootBounded ==
  /\ [](Count({"diagram"}) <= MAX_TOTAL_VISUALS + maxConcurrent - 1)
  /\ [][\A s \in Sec :
          (task[s].pc # "generate" /\ task'[s].pc = "generate") =>
            totalVisualsGenerated' < MAX_TOTAL_VISUALS]_vars

\* the quota was overshot by one diagram
C38_Witness_Overshoot ==
  hpc = "done" /\ Count({"diagram"}) = MAX_TOTAL_VISUALS + maxConcurrent - 1


\* ================================================ the ConcurrencyLimiter
\* executor.js lines 15-47 on its own: task functions are passed to execute
\* at any time, each started task ends by returning or by throwing.

\* task functions passed to the limiter in one behaviour
MaxTasks == 4

Tasks == 1..MaxTasks

\* the state of a limiter: its fields, the task functions and the promises
Limiter(q, run, fns, ps) ==
  [queue |-> q, running |-> run, fnState |-> fns, promise |-> ps]

\* lines 29-36: process() up to the call of fn
Process(L) ==
  IF LimiterBusy(L.running, L.queue) THEN L
  ELSE LET item == Head(L.queue)
       IN  [L EXCEPT !.running = @ + 1,
                     !.queue = Tail(@),
                     !.fnState[item.fn] = "started"]

\* lines 42-45 without the finally block: the slot is kept
FinallyKeepsSlot(L) == L

\* lines 42-45: finally { this.running--; this.process(); }
Finally(L) == Process([L EXCEPT !.running = @ - 1])

SetLimiter(L) ==
  /\ limQueue' = L.queue
  /\ limRunning' = L.running
  /\ fnState' = L.fnState
  /\ promise' = L.promise

ThisLimiter == Limiter(limQueue, limRunning, fnState, promise)

\* line 50: new ConcurrencyLimiter(2)
LimiterInit ==
  /\ NotLimiterIdle
  /\ limQueue = <<>>
  /\ limRunning = 0
  /\ fnState = [t \in Tasks |-> "notPassed"]
  /\ promise = [t \in Tasks |-> <<>>]

\* lines 22-27: execute(fn) queues the item and calls process()
LimiterExecute(t) ==
  /\ fnState[t] = "notPassed"
  /\ SetLimiter(Process([ThisLimiter EXCEPT
                           !.queue = Append(@, [fn |-> t, resolve |-> t]),
                           !.fnState[t] = "waiting"]))
  /\ UNCHANGED NotLimiter

\* lines 38-39 and 42-45: fn returned; the promise of its item resolves
TaskResolves(t) ==
  /\ fnState[t] = "started"
  /\ SetLimiter(Finally([ThisLimiter EXCEPT
                           !.fnState[t] = "ended",
                           !.promise[t] = <<"resolved", t>>]))
  /\ UNCHANGED NotLimiter

\* lines 40-45: fn threw; the promise of its item rejects
TaskRejects(t) ==
  /\ fnState[t] = "started"
  /\ SetLimiter(Finally([ThisLimiter EXCEPT
                           !.fnState[t] = "ended",
                           !.promise[t] = <<"rejected", t>>]))
  /\ UNCHANGED NotLimiter

LimiterNext ==
  \E t \in Tasks : LimiterExecute(t) \/ TaskResolves(t) \/ TaskRejects(t)

\* every started task terminates
LimiterSpec ==
  /\ LimiterInit
  /\ [][LimiterNext]_vars
  /\ \A t \in Tasks : WF_vars(TaskResolves(t) \/ TaskRejects(t))

\* C39: every task passed to ConcurrencyLimiter.execute is eventually started
\* and its promise settles with the task's own result or error, provided every
\* started task terminates; a task that rejects releases its slot like one
\* that resolves, so no queued task waits forever and running returns to 0
\* once the queue has drained.
C39_LimiterServesEveryTask ==
  /\ \A t \in Tasks : (fnState[t] = "waiting") ~> (fnState[t] = "started")
  /\ \A t \in Tasks : (fnState[t] # "notPassed") ~> (promise[t] # <<>>)
  /\ [](\A t \in Tasks : promise[t] # <<>> =>
          (promise[t][2] = t /\ fnState[t] = "ended"))
  /\ [](limRunning = Cardinality({t \in Tasks : fnState[t] = "started"}))
  /\ [](limQueue # <<>> => limRunning = maxConcurrent)
  /\ (limRunning > 0) ~> (limRunning = 0 /\ limQueue = <<>>)

\* both slots were held by tasks that threw, and a task that had to wait
\* was served all the same
C39_Witness_ServedAfterRejections ==
  /\ promise[1] # <<>> /\ promise[1][1] = "rejected"
  /\ promise[2] # <<>> /\ promise[2][1] = "rejected"
  /\ promise[3] # <<>> /\ promise[4] # <<>>
  /\ limRunning = 0 /\ limQueue = <<>>
====
